---------------------------- MODULE Spec2Model ----------------------------
(***************************************************************************)
(* Verification model of the soraking video-ad pipeline.                   *)
(*                                                                         *)
(*   Part I   SoraClient.generate_variant_parallel                         *)
(*            (src/modules/sora_client.py): job submission, the poll loop, *)
(*            artifact download, the final sort and the success flag,      *)
(*            against a backend that moves jobs on its own.                *)
(*   Part II  Scene1Generator.generate_scene1 (src/ad_cloner.py): the      *)
(*            stage driver with the PipelineLogger stage table.            *)
(***************************************************************************)
EXTENDS Integers, Sequences, FiniteSets, TLC

(***************************************************************************)
(* Bounds of the model.                                                    *)
(***************************************************************************)
MaxPrompts == 3

MaxSceneNumber == 2

None == "None"

(***************************************************************************)
(* Part I.  State of one generate_variant_parallel call.                   *)
(***************************************************************************)
VARIABLES
    scene_prompts,      \* the argument: list of prompt records
    pc,                 \* position of the call
    jobs,               \* list built by the submission loop
    pending_jobs,       \* jobs.copy(), shrinks as jobs become terminal
    sweep,              \* pending_jobs[:] the for loop iterates over
    idx,                \* position of the for loop in sweep
    completed_videos,   \* result entries in the order they were recorded
    backend,            \* status the backend holds for each job id
    created,            \* history: prompt indices handed to create_video
    polled,             \* job id of the status poll made by the last step
    downloads,          \* history: job ids handed to download_video
    exc,                \* the call that raised, when pc = "raised"
    result              \* <<>> until the call returns, then <<dict>>

coordVars == <<scene_prompts, pc, jobs, pending_jobs, sweep, idx,
               completed_videos, backend, created, polled, downloads,
               exc, result>>

(***************************************************************************)
(* Part II.  State of one Scene1Generator.generate_scene1 run.             *)
(***************************************************************************)
VARIABLES
    video_path,         \* the argument: which input mode the run is in
    has_logger,         \* whether self.logger is set
    aggression_level,   \* the argument
    source_scenes,      \* scene_breakdown the analyzer yields for the video
    spc,                \* position of the run
    stages,             \* logger.progress['stages'][name]['status']
    events,             \* stage events the logger received, in order
    analysis,           \* the analysis dictionary
    analysis_path,      \* None in the two mock modes
    transform_exc,      \* the call of the transform step that raised
    all_variants,       \* after the variants stage: [target_variant]
    variant_prompts,    \* variant level -> list of prompt records
    validation_log,     \* variant level -> errors_count of its report
    generated_variants, \* variant level -> result of the generation
    submitted_prompts,  \* history: prompts handed to create_video
    raised_in,          \* where the exception that ended the run came from
    final_result        \* <<>> until the run returns, then <<dict>>

pipeVars == <<video_path, has_logger, aggression_level, source_scenes, spc,
              stages, events, analysis, analysis_path, transform_exc,
              all_variants, variant_prompts, validation_log,
              generated_variants, submitted_prompts, raised_in,
              final_result>>

(***************************************************************************)
(* Part III.  State of one PipelineLogger shared by concurrent callers of  *)
(* log().                                                                  *)
(***************************************************************************)
VARIABLES
    log_events,         \* self.events
    events_json,        \* the bytes of events.json, as a token sequence
    tpc,                \* position of each thread inside log()
    fh                  \* file object each thread holds inside _save_events

logVars == <<log_events, events_json, tpc, fh>>

(***************************************************************************)
(* Part IV.  One call of a function of the library modules.                *)
(***************************************************************************)
VARIABLES
    fn,                 \* the function that is called
    arg,                \* its argument
    presets,            \* self.presets of the AggressionVariantGenerator
    ret,                \* <<>> until the call ends, then its outcome
    fpc                 \* position of the call

fnVars == <<fn, arg, presets, ret, fpc>>

(***************************************************************************)
(* Part V.  The generation history tables PipelineIntegrator writes.       *)
(***************************************************************************)
VARIABLES
    db_generation,      \* the row of the generations table, <<>> before it
    db_variants,        \* rows of the variants table, in creation order
    db_scenes,          \* rows of the scenes table, in creation order
    ipc                 \* position of the integrator's caller

intVars == <<db_generation, db_variants, db_scenes, ipc>>

auxVars == <<logVars, fnVars, intVars>>

vars == <<coordVars, pipeVars, auxVars>>

Threads == {1, 2}

LogIdle ==
    /\ log_events = <<>>
    /\ events_json = <<>>
    /\ tpc = [t \in Threads |-> "idle"]
    /\ fh = [t \in Threads |-> <<>>]

FnIdle ==
    /\ fn = None
    /\ arg = <<>>
    /\ presets = <<>>
    /\ ret = <<>>
    /\ fpc = "idle"

IntIdle ==
    /\ db_generation = <<>>
    /\ db_variants = <<>>
    /\ db_scenes = <<>>
    /\ ipc = "idle"

AuxIdle == LogIdle /\ FnIdle /\ IntIdle

SceneNumbers == 1..MaxSceneNumber

JobIds == 1..MaxPrompts

Terminal == {"completed", "failed"}

NonTerminal == {"queued", "in_progress"}

PromptLists ==
    UNION {[1..n -> [scene_number : SceneNumbers]] : n \in 0..MaxPrompts}

\* list.remove(x): drops the first element equal to x
RECURSIVE Remove(_, _)
Remove(s, x) ==
    IF s = <<>> THEN <<>>
    ELSE IF Head(s) = x THEN Tail(s)
    ELSE <<Head(s)>> \o Remove(Tail(s), x)

\* one insertion step of a stable sort on the key scene_number
RECURSIVE InsertSorted(_, _)
InsertSorted(s, e) ==
    IF s = <<>> THEN <<e>>
    ELSE IF s[Len(s)].scene_number <= e.scene_number THEN Append(s, e)
    ELSE Append(InsertSorted(SubSeq(s, 1, Len(s) - 1), e), s[Len(s)])

\* the list left in the order the jobs were recorded
SortSkipped(s) == s

\* completed_videos.sort(key=lambda x: x['scene_number'])  (stable)
RECURSIVE SortBySceneNumber(_)
SortBySceneNumber(s) ==
    IF s = <<>> THEN <<>>
    ELSE InsertSorted(SortBySceneNumber(SubSeq(s, 1, Len(s) - 1)), s[Len(s)])

\* any() where the code has all()
SuccessAny(videos) == \E i \in 1..Len(videos) : videos[i].status # "failed"

\* all(v.get('status') != 'failed' for v in completed_videos)
Success(videos) == \A i \in 1..Len(videos) : videos[i].status # "failed"

\* the entry appended for a job polled as completed (no 'status' key)
CompletedEntry(job) ==
    [scene_number |-> job.scene_number, status |-> None,
     video_path |-> "local_path", job_id |-> job.job_id]

\* the entry appended for a job polled as failed (no video_path, no job_id
\* key; job_id is kept here to tell entries of equal scene_number apart)
FailedEntry(job) ==
    [scene_number |-> job.scene_number, status |-> "failed",
     video_path |-> None, job_id |-> job.job_id]

CoordInit ==
    /\ scene_prompts \in PromptLists
    /\ pc = "submit"
    /\ jobs = <<>>
    /\ pending_jobs = <<>>
    /\ sweep = <<>>
    /\ idx = 0
    /\ completed_videos = <<>>
    /\ backend = [j \in JobIds |-> None]
    /\ created = <<>>
    /\ polled = 0
    /\ downloads = <<>>
    /\ exc = None
    /\ result = <<>>

\* for scene_data in scene_prompts: job = self.create_video(...); jobs.append
SubmitJob ==
    /\ pc = "submit"
    /\ Len(jobs) < Len(scene_prompts)
    /\ LET i == Len(jobs) + 1
       IN /\ created' = Append(created, i)
          /\ backend' = [backend EXCEPT ![i] = "queued"]
          /\ jobs' = Append(jobs, [job_id |-> i,
                          scene_number |-> scene_prompts[i].scene_number])
    /\ polled' = 0
    /\ UNCHANGED <<pipeVars, auxVars>>
    /\ UNCHANGED <<scene_prompts, pc, pending_jobs, sweep, idx,
                   completed_videos, downloads, exc, result>>

\* create_video re-raises the RequestException; the loop has no handler
SubmitRaises ==
    /\ pc = "submit"
    /\ Len(jobs) < Len(scene_prompts)
    /\ created' = Append(created, Len(jobs) + 1)
    /\ pc' = "raised"
    /\ exc' = "create_video"
    /\ polled' = 0
    /\ UNCHANGED <<pipeVars, auxVars>>
    /\ UNCHANGED <<scene_prompts, jobs, pending_jobs, sweep, idx,
                   completed_videos, backend, downloads, result>>

\* monitoring that starts as soon as one job has been submitted
StartMonitoringEarly ==
    /\ pc = "submit"
    /\ Len(jobs) >= 1
    /\ completed_videos' = <<>>
    /\ pending_jobs' = jobs
    /\ pc' = "while"
    /\ polled' = 0
    /\ UNCHANGED <<pipeVars, auxVars>>
    /\ UNCHANGED <<scene_prompts, jobs, sweep, idx, backend, created,
                   downloads, exc, result>>

\* completed_videos = []; pending_jobs = jobs.copy()
StartMonitoring ==
    /\ pc = "submit"
    /\ Len(jobs) = Len(scene_prompts)
    /\ completed_videos' = <<>>
    /\ pending_jobs' = jobs
    /\ pc' = "while"
    /\ polled' = 0
    /\ UNCHANGED <<pipeVars, auxVars>>
    /\ UNCHANGED <<scene_prompts, jobs, sweep, idx, backend, created,
                   downloads, exc, result>>

\* while pending_jobs: for job in pending_jobs[:]:
BeginSweep ==
    /\ pc = "while"
    /\ pending_jobs # <<>>
    /\ sweep' = pending_jobs
    /\ idx' = 1
    /\ pc' = "for"
    /\ polled' = 0
    /\ UNCHANGED <<pipeVars, auxVars>>
    /\ UNCHANGED <<scene_prompts, jobs, pending_jobs, completed_videos,
                   backend, created, downloads, exc, result>>

\* a poll that goes on to download_video for any terminal status
PollCompletedAnyTerminal ==
    /\ pc = "for"
    /\ idx <= Len(sweep)
    /\ backend[sweep[idx].job_id] \in Terminal
    /\ polled' = sweep[idx].job_id
    /\ pc' = "download"
    /\ UNCHANGED <<pipeVars, auxVars>>
    /\ UNCHANGED <<scene_prompts, jobs, pending_jobs, sweep, idx,
                   completed_videos, backend, created, downloads, exc,
                   result>>

\* status == 'completed': go on to download_video
PollCompleted ==
    /\ pc = "for"
    /\ idx <= Len(sweep)
    /\ backend[sweep[idx].job_id] = "completed"
    /\ polled' = sweep[idx].job_id
    /\ pc' = "download"
    /\ UNCHANGED <<pipeVars, auxVars>>
    /\ UNCHANGED <<scene_prompts, jobs, pending_jobs, sweep, idx,
                   completed_videos, backend, created, downloads, exc,
                   result>>

\* the completed branch without its pending_jobs.remove(job)
DownloadOkKeepsPending ==
    /\ pc = "download"
    /\ downloads' = Append(downloads, sweep[idx].job_id)
    /\ completed_videos' = Append(completed_videos, CompletedEntry(sweep[idx]))
    /\ idx' = idx + 1
    /\ pc' = "for"
    /\ polled' = 0
    /\ UNCHANGED <<pipeVars, auxVars>>
    /\ UNCHANGED <<scene_prompts, jobs, pending_jobs, sweep, backend, created,
                   exc, result>>

\* download_video returned: append the entry, pending_jobs.remove(job)
DownloadOk ==
    /\ pc = "download"
    /\ downloads' = Append(downloads, sweep[idx].job_id)
    /\ completed_videos' = Append(completed_videos, CompletedEntry(sweep[idx]))
    /\ pending_jobs' = Remove(pending_jobs, sweep[idx])
    /\ idx' = idx + 1
    /\ pc' = "for"
    /\ polled' = 0
    /\ UNCHANGED <<pipeVars, auxVars>>
    /\ UNCHANGED <<scene_prompts, jobs, sweep, backend, created, exc, result>>

\* download_video raised (raise_for_status, open): nothing catches it
DownloadRaises ==
    /\ pc = "download"
    /\ downloads' = Append(downloads, sweep[idx].job_id)
    /\ pc' = "raised"
    /\ exc' = "download_video"
    /\ polled' = 0
    /\ UNCHANGED <<pipeVars, auxVars>>
    /\ UNCHANGED <<scene_prompts, jobs, pending_jobs, sweep, idx,
                   completed_videos, backend, created, result>>

\* the failed branch without its pending_jobs.remove(job)
PollFailedKeepsPending ==
    /\ pc = "for"
    /\ idx <= Len(sweep)
    /\ backend[sweep[idx].job_id] = "failed"
    /\ polled' = sweep[idx].job_id
    /\ completed_videos' = Append(completed_videos, FailedEntry(sweep[idx]))
    /\ idx' = idx + 1
    /\ UNCHANGED <<pipeVars, auxVars>>
    /\ UNCHANGED <<scene_prompts, pc, jobs, pending_jobs, sweep, backend,
                   created, downloads, exc, result>>

\* status == 'failed': append the failed entry, pending_jobs.remove(job)
PollFailed ==
    /\ pc = "for"
    /\ idx <= Len(sweep)
    /\ backend[sweep[idx].job_id] = "failed"
    /\ polled' = sweep[idx].job_id
    /\ completed_videos' = Append(completed_videos, FailedEntry(sweep[idx]))
    /\ pending_jobs' = Remove(pending_jobs, sweep[idx])
    /\ idx' = idx + 1
    /\ UNCHANGED <<pipeVars, auxVars>>
    /\ UNCHANGED <<scene_prompts, pc, jobs, sweep, backend, created,
                   downloads, exc, result>>

\* any other status: print the progress and go to the next job
PollInProgress ==
    /\ pc = "for"
    /\ idx <= Len(sweep)
    /\ backend[sweep[idx].job_id] \in NonTerminal
    /\ polled' = sweep[idx].job_id
    /\ idx' = idx + 1
    /\ UNCHANGED <<pipeVars, auxVars>>
    /\ UNCHANGED <<scene_prompts, pc, jobs, pending_jobs, sweep,
                   completed_videos, backend, created, downloads, exc,
                   result>>

\* get_video_status raised (requests.get / raise_for_status)
PollRaises ==
    /\ pc = "for"
    /\ idx <= Len(sweep)
    /\ polled' = sweep[idx].job_id
    /\ pc' = "raised"
    /\ exc' = "get_video_status"
    /\ UNCHANGED <<pipeVars, auxVars>>
    /\ UNCHANGED <<scene_prompts, jobs, pending_jobs, sweep, idx,
                   completed_videos, backend, created, downloads, result>>

\* end of the for loop: if pending_jobs: time.sleep(15); back to the while
EndSweep ==
    /\ pc = "for"
    /\ idx > Len(sweep)
    /\ pc' = "while"
    /\ polled' = 0
    /\ UNCHANGED <<pipeVars, auxVars>>
    /\ UNCHANGED <<scene_prompts, jobs, pending_jobs, sweep, idx,
                   completed_videos, backend, created, downloads, exc,
                   result>>

\* a loop that gives up after a sweep although jobs are still pending
ReturnResultOnTimeout ==
    /\ pc = "while"
    /\ completed_videos' = SortBySceneNumber(completed_videos)
    /\ result' = <<[scenes |-> completed_videos',
                    total_scenes |-> Len(completed_videos'),
                    success |-> Success(completed_videos')]>>
    /\ pc' = "returned"
    /\ polled' = 0
    /\ UNCHANGED <<pipeVars, auxVars>>
    /\ UNCHANGED <<scene_prompts, jobs, pending_jobs, sweep, idx, backend,
                   created, downloads, exc>>

\* the while condition is false: sort and return the dictionary
ReturnResult ==
    /\ pc = "while"
    /\ pending_jobs = <<>>
    /\ completed_videos' = SortBySceneNumber(completed_videos)
    /\ result' = <<[scenes |-> completed_videos',
                    total_scenes |-> Len(completed_videos'),
                    success |-> Success(completed_videos')]>>
    /\ pc' = "returned"
    /\ polled' = 0
    /\ UNCHANGED <<pipeVars, auxVars>>
    /\ UNCHANGED <<scene_prompts, jobs, pending_jobs, sweep, idx, backend,
                   created, downloads, exc>>

(***************************************************************************)
(* The generation backend: queued -> in_progress -> completed | failed.    *)
(***************************************************************************)
BackendStart(j) ==
    /\ backend[j] = "queued"
    /\ backend' = [backend EXCEPT ![j] = "in_progress"]
    /\ UNCHANGED <<pipeVars, auxVars>>
    /\ UNCHANGED <<scene_prompts, pc, jobs, pending_jobs, sweep, idx,
                   completed_videos, created, polled, downloads, exc, result>>

BackendComplete(j) ==
    /\ backend[j] = "in_progress"
    /\ backend' = [backend EXCEPT ![j] = "completed"]
    /\ UNCHANGED <<pipeVars, auxVars>>
    /\ UNCHANGED <<scene_prompts, pc, jobs, pending_jobs, sweep, idx,
                   completed_videos, created, polled, downloads, exc, result>>

BackendFail(j) ==
    /\ backend[j] \in NonTerminal
    /\ backend' = [backend EXCEPT ![j] = "failed"]
    /\ UNCHANGED <<pipeVars, auxVars>>
    /\ UNCHANGED <<scene_prompts, pc, jobs, pending_jobs, sweep, idx,
                   completed_videos, created, polled, downloads, exc, result>>

CoordStep ==
    \/ SubmitJob
    \/ SubmitRaises
    \/ StartMonitoring
    \/ BeginSweep
    \/ PollCompleted
    \/ DownloadOk
    \/ DownloadRaises
    \/ PollFailed
    \/ PollInProgress
    \/ PollRaises
    \/ EndSweep
    \/ ReturnResult

(***************************************************************************)
(* Part II.  Scene1Generator.generate_scene1.                              *)
(***************************************************************************)
MaxScenes == 2

MaxPromptLength == 2000

MaxTextOverlays == 5

Levels == <<"soft", "medium", "aggressive", "ultra">>

LevelSet == {Levels[i] : i \in 1..Len(Levels)}

StageNames == {"analysis", "variants", "prompts", "generation", "assembly"}

StageOrder == <<"analysis", "variants", "prompts", "generation", "assembly">>

\* class attributes of Config
ConfigAttributes ==
    {"OPENAI_API_KEY", "GEMINI_API_KEY", "IDEOGRAM_API_KEY", "PORT",
     "BASE_DIR", "OUTPUT_DIR", "ANALYSIS_DIR", "VIDEOS_DIR", "LOGS_DIR",
     "TEMPLATES_DIR", "SORA_MODEL", "SORA_RESOLUTION", "SORA_DURATION",
     "SORA_2_COST_PER_SECOND", "SORA_2_PRO_COST_PER_SECOND",
     "DEFAULT_AD_DURATION", "SCENES_PER_AD", "GEMINI_MODEL", "AUDIO_ENABLED",
     "AUDIO_MIX", "TEXT_FONT_PRIMARY", "TEXT_FONT_SECONDARY",
     "TEXT_SIZE_LARGE", "TEXT_SIZE_MEDIUM", "TEXT_SIZE_SMALL", "TEXT_COLORS"}

InputModes == {"video", "script-only-mode", "image-to-video"}

CONTRADICTORY_EMOTIONS ==
    {<<"frustrated", "excited">>, <<"calm", "explosive">>,
     <<"gentle", "confrontational">>, <<"relaxed", "urgent">>,
     <<"thoughtful", "impulsive">>}

BROLL_FORBIDDEN ==
    {"person", "people", "man", "woman", "face", "character",
     "spokesperson", "actor", "he ", "she ", "human", "individual"}

\* A prompt text is held as what the validator reads off it: its length,
\* the watched terms that occur in its lower-cased form, the number of
\* text-overlay instructions and the number of "at m:ss" timings outside
\* 0:00-0:12.
BuilderTexts ==
    {[length |-> 400, terms |-> {"camera"}, overlays |-> 1, bad_timings |-> 0],
     [length |-> 400, terms |-> {"calm", "explosive"}, overlays |-> 1,
      bad_timings |-> 0],
     [length |-> 2001, terms |-> {"person"}, overlays |-> 6, bad_timings |-> 1]}

\* _check_length: one error above MAX_PROMPT_LENGTH
CheckLengthErrors(p) == IF p.length > MaxPromptLength THEN 1 ELSE 0

\* _check_emotions: one error per contradictory pair found
CheckEmotionsErrors(p) ==
    Cardinality({e \in CONTRADICTORY_EMOTIONS :
                    e[1] \in p.terms /\ e[2] \in p.terms})

\* _validate_broll_prompt: one error when any forbidden term is found
BrollErrors(p) == IF p.terms \cap BROLL_FORBIDDEN # {} THEN 1 ELSE 0

\* _check_text_overlays: one error above MAX_TEXT_OVERLAYS, one per timing
\* outside the 0:00-0:12 range
CheckTextOverlaysErrors(p) ==
    (IF p.overlays > MaxTextOverlays THEN 1 ELSE 0) + p.bad_timings

\* len(errors) of validate_prompt
ValidatePromptErrors(p, has_character) ==
    CheckLengthErrors(p) + CheckEmotionsErrors(p)
    + (IF has_character THEN 0 ELSE BrollErrors(p))
    + CheckTextOverlaysErrors(p)

\* report['errors_count'] of validate_all_prompts
RECURSIVE ValidateAllPromptsErrors(_)
ValidateAllPromptsErrors(prompts) ==
    IF prompts = <<>> THEN 0
    ELSE ValidatePromptErrors(Head(prompts).prompt, Head(prompts).has_character)
         + ValidateAllPromptsErrors(Tail(prompts))

(***************************************************************************)
(* Functions of the library modules.                                       *)
(***************************************************************************)
\* dict.get(key, default)
Get(d, key, default) == IF key \in DOMAIN d THEN d[key] ELSE default

\* the outcome of a call: the value it returned or the exception it raised
Returns(value) == <<[raised |-> None, value |-> value]>>

Raises(exception) == <<[raised |-> exception, value |-> <<>>]>>

(***************************************************************************)
(* utils.normalize_spokesperson.  A JSON value of the analysis document is *)
(* a record of its Python type, its elements (a list) and its              *)
(* physical_description (a dict; the text itself for a string).            *)
(***************************************************************************)
PyDict(desc) == [type |-> "dict", items |-> <<>>, desc |-> desc]

PyStr(text) == [type |-> "str", items |-> <<>>, desc |-> text]

PyNone == [type |-> "NoneType", items |-> <<>>, desc |-> None]

PyList(items) == [type |-> "list", items |-> items, desc |-> None]

EmptyDict == PyDict(None)

MaxPeople == 2

\* what Gemini can put into a spokesperson list
PersonValues ==
    {PyDict("woman in her 30s"), PyDict("man in a suit"), EmptyDict,
     PyStr("woman in her 30s"), PyNone}

SpokespersonValues ==
    {PyDict("woman in her 30s"), EmptyDict, PyStr("unknown"), PyNone}
    \cup {PyList(l) : l \in UNION {[1..n -> PersonValues] : n \in 0..MaxPeople}}

\* analysis documents: with and without the 'spokesperson' key
AnalysisDocuments ==
    {[keys |-> {}, spokesperson |-> PyNone]}
    \cup {[keys |-> {"spokesperson"}, spokesperson |-> v] :
             v \in SpokespersonValues}

NormalizeSpokesperson(a) ==
    LET spokesperson == IF "spokesperson" \in a.keys THEN a.spokesperson
                        ELSE EmptyDict
    IN IF spokesperson.type = "list"
       THEN IF Len(spokesperson.items) > 0 THEN spokesperson.items[1]
            ELSE EmptyDict
       ELSE IF spokesperson.type = "dict" THEN spokesperson
       ELSE EmptyDict

CallNormalizeSpokesperson ==
    /\ fn = "normalize_spokesperson"
    /\ fpc = "call"
    /\ ret' = Returns(NormalizeSpokesperson(arg))
    /\ fpc' = "done"
    /\ UNCHANGED <<fn, arg, presets>>
    /\ UNCHANGED <<coordVars, pipeVars, logVars, intVars>>

\* the document with its spokesperson replaced by the value returned, and
\* normalize_spokesperson called on it again
NormalizeAgain ==
    /\ fn = "normalize_spokesperson"
    /\ fpc = "done"
    /\ ret' = ret \o Returns(NormalizeSpokesperson(
                 [keys |-> {"spokesperson"}, spokesperson |-> ret[1].value]))
    /\ fpc' = "again"
    /\ UNCHANGED <<fn, arg, presets>>
    /\ UNCHANGED <<coordVars, pipeVars, logVars, intVars>>

(***************************************************************************)
(* Texts.  A text is the concatenation of phrases of a small vocabulary;   *)
(* str.lower() and the substring test are tables over that vocabulary.     *)
(* "<1990 characters> " stands for 1990 characters that contain none of    *)
(* the terms the validator looks for, followed by a space.                 *)
(***************************************************************************)
MaxPhrases == 2

SixOverlays == "overlay overlay overlay overlay overlay overlay "

PromptVocabulary ==
    {"camera ", "Character ", "WOMAN ", "the ", "calm ", "explosive ",
     "\"Hi\" ", "at 0:45 ", "at 0:05 ", SixOverlays, "<1990 characters> ",
     "whip pan ", "person ", "People ", "face ", "Spokesperson ", "actor ",
     "She ", "human ", "individual "}

PromptTexts == UNION {[1..n -> PromptVocabulary] : n \in 0..MaxPhrases}

\* the fixed wording of _build_broll_prompt
EnvironmentOnly == "\n\nEnvironment-only shots. "

MoodLabel == ". Mood: "

Voiceover == ". Cinematic grade.\n\nVoiceover: \""

Symbolic ==
    "\"\n\nSymbolic storytelling through objects/environment only.\n\n4K cinematic. 12s."

\* "{broll_type} visuals: vehicles, objects, documents, settings." and the
\* blank line after it
TypeVisuals(broll_type) ==
    CASE broll_type = "generic" ->
            "generic visuals: vehicles, objects, documents, settings.\n\n"
      [] broll_type = "niche" ->
            "niche visuals: vehicles, objects, documents, settings.\n\n"

\* str.lower() without the conversion
LowerSkipped(w) == w

\* str.lower()
Lower(w) ==
    CASE w = "Character " -> "character "
      [] w = "WOMAN " -> "woman "
      [] w = "\"Hi\" " -> "\"hi\" "
      [] w = "People " -> "people "
      [] w = "Spokesperson " -> "spokesperson "
      [] w = "She " -> "she "
      [] w = "Frustrated" -> "frustrated"
      [] w = "EXCITED" -> "excited"
      [] w = "Hook" -> "hook"
      [] w = "CTA" -> "cta"
      [] w = EnvironmentOnly -> "\n\nenvironment-only shots. "
      [] w = MoodLabel -> ". mood: "
      [] w = Voiceover -> ". cinematic grade.\n\nvoiceover: \""
      [] w = Symbolic ->
            "\"\n\nsymbolic storytelling through objects/environment only.\n\n4k cinematic. 12s."
      [] w = "Smooth glides" -> "smooth glides"
      [] w = "Steady tracking" -> "steady tracking"
      [] w = "Dynamic shots" -> "dynamic shots"
      [] w = "Intense rushes" -> "intense rushes"
      [] w = "Steady" -> "steady"
      [] OTHER -> w

\* len()
Length(w) ==
    CASE w = "camera " -> 7
      [] w = "Character " -> 10
      [] w = "WOMAN " -> 6
      [] w = "the " -> 4
      [] w = "calm " -> 5
      [] w = "explosive " -> 10
      [] w = "\"Hi\" " -> 5
      [] w = "at 0:45 " -> 8
      [] w = "at 0:05 " -> 8
      [] w = SixOverlays -> 48
      [] w = "<1990 characters> " -> 1991
      [] w = "whip pan " -> 9
      [] w = "person " -> 7
      [] w = "People " -> 7
      [] w = "face " -> 5
      [] w = "Spokesperson " -> 13
      [] w = "actor " -> 6
      [] w = "She " -> 4
      [] w = "human " -> 6
      [] w = "individual " -> 11
      [] w = "" -> 0
      [] w = EnvironmentOnly -> 26
      [] w = TypeVisuals("generic") -> 58
      [] w = TypeVisuals("niche") -> 56
      [] w = MoodLabel -> 8
      [] w = Voiceover -> 32
      [] w = Symbolic -> 78
      [] w = "Smooth glides" -> 13
      [] w = "Steady tracking" -> 15
      [] w = "Dynamic shots" -> 13
      [] w = "Intense rushes" -> 14
      [] w = "Steady" -> 6
      [] w = "cinematic footage" -> 17
      [] w = "professional" -> 12
      [] w = "generic" -> 7
      [] w = "niche" -> 5

\* <<term, phrase>>: Python's  term in phrase  for a lower-cased phrase
Within ==
    {<<"camera", "camera ">>, <<"character", "character ">>,
     <<"woman", "woman ">>, <<"man", "woman ">>, <<"he ", "the ">>,
     <<"calm", "calm ">>, <<"explosive", "explosive ">>,
     <<"\"", "\"hi\" ">>, <<"pan", "whip pan ">>, <<"whip pan", "whip pan ">>,
     <<"person", "person ">>, <<"people", "people ">>, <<"face", "face ">>,
     <<"person", "spokesperson ">>, <<"spokesperson", "spokesperson ">>,
     <<"actor", "actor ">>, <<"he ", "she ">>, <<"she ", "she ">>,
     <<"human", "human ">>, <<"man", "human ">>,
     <<"individual", "individual ">>,
     <<"frustrated", "frustrated">>, <<"excited", "excited">>,
     <<"urgent", "urgent">>, <<"urgent", "urgently">>, <<"calm", "calm">>,
     <<"calm", "calmly">>, <<"explosive", "explosive">>,
     <<"explosive", "explosively">>, <<"thoughtful", "thoughtfully">>,
     <<"thoughtful", "thoughtful">>, <<"confident", "confident">>,
     <<"confident", "confidently">>, <<"worried", "worried">>,
     <<"determined", "determined">>, <<"gentle", "gentle">>,
     <<"confrontational", "confrontational">>, <<"relaxed", "relaxed">>,
     <<"impulsive", "impulsive">>, <<"hook", "hook">>, <<"cta", "cta">>,
     <<"shot", Lower(EnvironmentOnly)>>, <<"shot", "dynamic shots">>,
     <<"visual", TypeVisuals("generic")>>, <<"visual", TypeVisuals("niche")>>,
     <<"he ", TypeVisuals("niche")>>,
     <<"\"", Lower(Voiceover)>>, <<"\"", Lower(Symbolic)>>,
     <<"4k", Lower(Symbolic)>>,
     <<"footage", "cinematic footage">>, <<"age", "cinematic footage">>}

\* term in text.lower()
Contains(text, term) ==
    \E i \in 1..Len(text) : <<term, Lower(text[i])>> \in Within

\* the terms found in text.lower()
TermsOf(text) == {q[1] : q \in {r \in Within : Contains(text, r[1])}}

\* lower-cased count of 'text ' plus count of 'overlay' in a phrase
OverlayWords(w) == IF w = SixOverlays THEN 6 ELSE 0

\* re.findall(r'at (\d+:\d+)') on a phrase, as <<mins, secs>>
Timings(w) ==
    CASE w = "at 0:45 " -> <<<<0, 45>>>>
      [] w = "at 0:05 " -> <<<<0, 5>>>>
      [] OTHER -> <<>>

RECURSIVE Sum(_)
Sum(s) == IF s = <<>> THEN 0 ELSE Head(s) + Sum(Tail(s))

RECURSIVE Flatten(_)
Flatten(s) == IF s = <<>> THEN <<>> ELSE Head(s) \o Flatten(Tail(s))

Min(S) == CHOOSE x \in S : \A y \in S : x <= y

\* len(re.findall(r'at \d+:\d+.*?:.*?".*?"')) from phrase number from on: a
\* timing, a later colon (of a later timing) and a later quoted string
RECURSIVE TimedQuotes(_, _)
TimedQuotes(text, from) ==
    LET T == {i \in from..Len(text) : Timings(text[i]) # <<>>}
    IN IF T = {} THEN 0
       ELSE LET C == {j \in (Min(T) + 1)..Len(text) : Timings(text[j]) # <<>>}
            IN IF C = {} THEN 0
               ELSE LET Q == {k \in (Min(C) + 1)..Len(text) :
                                 <<"\"", Lower(text[k])>> \in Within}
                    IN IF Q = {} THEN 0
                       ELSE 1 + TimedQuotes(text, Min(Q) + 1)

JarringPatterns == {"extreme close-up", "whip pan", "crash zoom"}

\* what the validator reads off a prompt text
ReadPrompt(text) ==
    LET timings == Flatten([i \in 1..Len(text) |-> Timings(text[i])])
    IN [length |-> Sum([i \in 1..Len(text) |-> Length(text[i])]),
        terms |-> TermsOf(text),
        overlays |-> Sum([i \in 1..Len(text) |-> OverlayWords(text[i])])
                     + TimedQuotes(text, 1),
        bad_timings |-> Cardinality({i \in 1..Len(timings) :
                            timings[i][1] > 0 \/ timings[i][2] > 12}),
        times |-> [i \in 1..Len(timings) |->
                      timings[i][1] * 60 + timings[i][2]],
        repeats |-> {pat \in JarringPatterns :
                        Cardinality({i \in 1..Len(text) :
                            <<pat, Lower(text[i])>> \in Within}) >= 2}]

MaxAudioCues == 10

\* _check_length: one warning above 80% of MAX_PROMPT_LENGTH
CheckLengthWarnings(p) ==
    IF p.length > MaxPromptLength THEN 0
    ELSE IF 10 * p.length > 8 * MaxPromptLength THEN 1 ELSE 0

\* _validate_character_prompt: warnings only
CharacterWarnings(p) ==
    (IF p.terms \cap {"female", "male", "person", "age"} = {} THEN 1 ELSE 0)
    + (IF p.terms \cap {"camera", "shot", "dolly", "push", "pan"} = {}
       THEN 1 ELSE 0)
    + (IF "\"" \notin p.terms THEN 1 ELSE 0)

\* _validate_broll_prompt: the visual storytelling warning
BrollWarnings(p) ==
    IF p.terms \cap {"visual", "show", "reveal", "camera", "footage"} = {}
    THEN 1 ELSE 0

\* _check_required_elements: duration, style, quality
RequiredElementsWarnings(p) ==
    (IF p.terms \cap {"duration", "12 second"} = {} THEN 1 ELSE 0)
    + (IF "style" \notin p.terms THEN 1 ELSE 0)
    + (IF p.terms \cap {"quality", "4k"} = {} THEN 1 ELSE 0)

\* _check_audio_timing: too many cues, and one warning per pair of
\* neighbours of the sorted times less than a second apart
CheckAudioTimingWarnings(p) ==
    (IF Len(p.times) > MaxAudioCues THEN 1 ELSE 0)
    + (Len(p.times) - Cardinality({p.times[i] : i \in 1..Len(p.times)}))

\* _check_shot_transitions: one warning per jarring pattern
CheckShotTransitionsWarnings(p) == Cardinality(p.repeats)

\* len(warnings) of validate_prompt
ValidatePromptWarnings(p, has_character) ==
    CheckLengthWarnings(p)
    + (IF has_character THEN CharacterWarnings(p) ELSE BrollWarnings(p))
    + RequiredElementsWarnings(p)
    + CheckAudioTimingWarnings(p)
    + CheckShotTransitionsWarnings(p)

\* validate_prompt with is_valid = no errors and no warnings
ValidatePromptStrict(prompt, scene_info) ==
    LET p == ReadPrompt(prompt)
        has_character == Get(scene_info, "has_character", TRUE)
    IN [is_valid |-> ValidatePromptErrors(p, has_character) = 0
                     /\ ValidatePromptWarnings(p, has_character) = 0,
        errors |-> ValidatePromptErrors(p, has_character),
        warnings |-> ValidatePromptWarnings(p, has_character),
        people_references |-> ~has_character /\ BrollErrors(p) = 1]

\* validate_prompt(prompt, scene_info)
ValidatePrompt(prompt, scene_info) ==
    LET p == ReadPrompt(prompt)
        has_character == Get(scene_info, "has_character", TRUE)
    IN [is_valid |-> ValidatePromptErrors(p, has_character) = 0,
        errors |-> ValidatePromptErrors(p, has_character),
        warnings |-> ValidatePromptWarnings(p, has_character),
        people_references |-> ~has_character /\ BrollErrors(p) = 1]

SceneInfos ==
    {[has_character |-> TRUE, purpose |-> "hook"],
     [has_character |-> FALSE, purpose |-> "hook"],
     [purpose |-> "hook"]}

CallValidatePrompt ==
    /\ fn = "validate_prompt"
    /\ fpc = "call"
    /\ ret' = Returns(ValidatePrompt(arg.prompt, arg.scene_info))
    /\ fpc' = "done"
    /\ UNCHANGED <<fn, arg, presets>>
    /\ UNCHANGED <<coordVars, pipeVars, logVars, intVars>>

\* camera_styles of _build_broll_prompt
CameraStyles ==
    [soft |-> "Smooth glides", medium |-> "Steady tracking",
     aggressive |-> "Dynamic shots", ultra |-> "Intense rushes"]

\* _build_broll_prompt(scene, variant, script): the f-string, piece by piece
BuildBrollPrompt(scene, variant, script) ==
    LET visual_desc == Get(scene, "visual_description", "cinematic footage")
        broll_type == Get(scene, "broll_type", "generic")
        mood == Get(scene, "mood", "professional")
        aggression == Get(variant, "variant_level", "medium")
        camera_style == IF aggression \in DOMAIN CameraStyles
                        THEN CameraStyles[aggression] ELSE "Steady"
    IN <<visual_desc, EnvironmentOnly, TypeVisuals(broll_type), camera_style,
         MoodLabel, mood, Voiceover, script, Symbolic>>

\* scenes without a character: each of visual_description, broll_type and
\* mood is there or left to its default
BrollScenes ==
    {[k \in keys \cup {"has_character"} |->
         CASE k = "has_character" -> FALSE
           [] k = "visual_description" -> v
           [] k = "broll_type" -> "niche"
           [] k = "mood" -> "calm "] :
        keys \in SUBSET {"visual_description", "broll_type", "mood"},
        v \in {"camera ", "WOMAN "}}

BrollVariants ==
    {[variant_level |-> l] : l \in LevelSet} \cup {[variant_name |-> "Medium"]}

BrollScripts == {"", "at 0:45 ", "explosive ", "<1990 characters> "}

\* _build_broll_prompt(scene, variant, script)
CallBuildBrollPrompt ==
    /\ fn = "_build_broll_prompt"
    /\ fpc = "call"
    /\ ret' = Returns(BuildBrollPrompt(arg.scene, arg.variant, arg.script))
    /\ fpc' = "done"
    /\ UNCHANGED <<fn, arg, presets>>
    /\ UNCHANGED <<coordVars, pipeVars, logVars, intVars>>

\* validate_prompt(prompt, scene) on the prompt just built, as
\* validate_all_prompts does with every record
ValidateBuilt ==
    /\ fn = "_build_broll_prompt"
    /\ fpc = "done"
    /\ ret' = ret \o Returns(ValidatePrompt(ret[1].value, arg.scene))
    /\ fpc' = "validated"
    /\ UNCHANGED <<fn, arg, presets>>
    /\ UNCHANGED <<coordVars, pipeVars, logVars, intVars>>

(***************************************************************************)
(* aggression_variants.AggressionVariantGenerator.  An emotion text is a   *)
(* sequence of words; a preset is the set of keys it has and its list of   *)
(* emotion keywords.                                                       *)
(***************************************************************************)
BaseOrder ==
    <<"frustrated", "excited", "urgent", "confident", "worried", "determined">>

\* emotion_map of _adjust_emotion
EmotionMap ==
    [soft |->
        [frustrated |-> <<"thoughtfully", "concerned">>,
         excited |-> <<"pleasantly", "surprised">>,
         urgent |-> <<"gently", "insistent">>,
         confident |-> <<"calmly", "assured">>,
         worried |-> <<"quietly", "concerned">>,
         determined |-> <<"steadily", "focused">>],
     medium |->
        [frustrated |-> <<"determined", "to", "help">>,
         excited |-> <<"confidently", "enthusiastic">>,
         urgent |-> <<"focused", "and", "direct">>,
         confident |-> <<"professionally", "assured">>,
         worried |-> <<"actively", "addressing">>,
         determined |-> <<"purposefully", "driven">>],
     aggressive |->
        [frustrated |-> <<"fed", "up", "and", "taking", "action">>,
         excited |-> <<"fired", "up", "with", "energy">>,
         urgent |-> <<"intensely", "driven">>,
         confident |-> <<"boldly", "assertive">>,
         worried |-> <<"urgently", "concerned">>,
         determined |-> <<"fiercely", "committed">>],
     ultra |->
        [frustrated |-> <<"explosively", "candid">>,
         excited |-> <<"wildly", "enthusiastic">>,
         urgent |-> <<"relentlessly", "compelling">>,
         confident |-> <<"unshakably", "bold">>,
         worried |-> <<"dramatically", "alarmed">>,
         determined |-> <<"unstoppably", "fierce">>]]

\* _adjust_emotion that puts the first emotion keyword in front of the
\* original text
AdjustEmotionConcatenated(original_emotion, emotion_keywords, level) ==
    (IF emotion_keywords # <<>> THEN emotion_keywords[1] ELSE <<"confident">>)
    \o original_emotion

\* _adjust_emotion: the table phrase of the first base word found in the
\* lower-cased original, else the first emotion keyword, else 'confident'
AdjustEmotion(original_emotion, emotion_keywords, level) ==
    LET found == {i \in 1..Len(BaseOrder) :
                     Contains(original_emotion, BaseOrder[i])}
    IN IF level \in DOMAIN EmotionMap /\ found # {}
       THEN EmotionMap[level][BaseOrder[Min(found)]]
       ELSE IF emotion_keywords # <<>> THEN emotion_keywords[1]
       ELSE <<"confident">>

PresetKeys ==
    {"name", "description", "lighting", "tone", "pacing", "camera_movement",
     "music", "energy_level", "color_palette", "transitions",
     "emotion_keywords"}

\* the keys _create_variant reads off the preset
VariantKeys ==
    {"name", "description", "lighting", "music", "color_palette",
     "transitions", "energy_level"}

\* the keys _modify_scene reads off the preset
SceneKeys ==
    {"lighting", "tone", "pacing", "camera_movement", "energy_level",
     "emotion_keywords"}

\* _get_default_presets
DefaultPresets ==
    [soft |->
        [keys |-> PresetKeys,
         emotion_keywords |-> <<<<"calm">>, <<"peaceful">>, <<"thoughtful">>,
                                <<"gentle">>, <<"reassuring">>>>],
     medium |->
        [keys |-> PresetKeys,
         emotion_keywords |-> <<<<"confident">>, <<"professional">>,
                                <<"clear">>, <<"focused">>,
                                <<"authoritative">>>>],
     aggressive |->
        [keys |-> PresetKeys,
         emotion_keywords |-> <<<<"urgent">>, <<"intense">>, <<"dynamic">>,
                                <<"powerful">>, <<"compelling">>>>],
     ultra |->
        [keys |-> PresetKeys,
         emotion_keywords |-> <<<<"explosive">>, <<"confrontational">>,
                                <<"shocking">>, <<"disruptive">>,
                                <<"overwhelming">>>>]]

\* __init__: the table of the settings source, or the defaults when the
\* source raised or a level is missing
LoadPresets(settings) ==
    IF settings.raises THEN DefaultPresets
    ELSE IF ~(LevelSet \subseteq DOMAIN settings.table) THEN DefaultPresets
    ELSE settings.table

\* _modify_scene: scene.copy() with the modifiers and the adjusted emotion
ModifyScene(scene, preset, level) ==
    [k \in DOMAIN scene \cup {"aggression_modifiers", "emotion"} |->
        IF k = "aggression_modifiers"
        THEN [emotion_keywords |-> preset.emotion_keywords]
        ELSE IF k = "emotion"
        THEN AdjustEmotion(Get(scene, "emotion", <<>>),
                           preset.emotion_keywords, level)
        ELSE scene[k]]

\* whether _create_variant ends in a KeyError on the preset
CreateVariantRaises(a, preset) ==
    \/ ~(VariantKeys \subseteq preset.keys)
    \/ /\ Len(Get(a, "scene_breakdown", <<>>)) > 0
       /\ ~(SceneKeys \subseteq preset.keys)

\* _create_variant (variant_name, variant_description, original_analysis
\* and global_style are copies of preset and analysis values)
CreateVariant(a, level, preset) ==
    LET scene_breakdown == Get(a, "scene_breakdown", <<>>)
    IN [variant_level |-> level,
        modified_scenes |->
            [k \in 1..Len(scene_breakdown) |->
                ModifyScene(scene_breakdown[k], preset, level)]]

\* whether generate_variants ends in a KeyError
GenerateVariantsRaises(a, table) ==
    \E i \in 1..Len(Levels) :
        \/ Levels[i] \notin DOMAIN table
        \/ CreateVariantRaises(a, table[Levels[i]])

\* generate_variants: one variant per level, in the order of the levels
GenerateVariants(a, table) ==
    [i \in 1..Len(Levels) |-> CreateVariant(a, Levels[i], table[Levels[i]])]

(***************************************************************************)
(* sora_prompt_builder.SoraPromptBuilder.  A script is a sequence of       *)
(* words; re.split cuts it after every word that ends in '.', '!' or '?'   *)
(* and is followed by whitespace.                                          *)
(***************************************************************************)
MaxWords == 3

ScriptWords == {"Stop.", "Buy", "now!"}

Scripts == UNION {[1..n -> ScriptWords] : n \in 0..MaxWords}

EndsSentence(w) == w \in {"Stop.", "now!"}

RECURSIVE SentencesOf(_)
SentencesOf(words) ==
    LET cuts == {i \in 1..(Len(words) - 1) : EndsSentence(words[i])}
    IN IF cuts = {} THEN <<words>>
       ELSE <<SubSeq(words, 1, Min(cuts))>>
            \o SentencesOf(SubSeq(words, Min(cuts) + 1, Len(words)))

\* re.split(r'(?<=[.!?])\s+', script.strip()): one empty sentence for ''
Sentences(script) == IF script = <<>> THEN << <<>> >> ELSE SentencesOf(script)

\* s[a:b] that takes the element at b as well
SliceThroughEnd(s, a, b) ==
    SubSeq(s, a + 1, IF b + 1 < Len(s) THEN b + 1 ELSE Len(s))

\* s[a:b]
Slice(s, a, b) == SubSeq(s, a + 1, IF b < Len(s) THEN b ELSE Len(s))

\* whether _split_script_intelligently ends in a ZeroDivisionError
SplitRaises(scenes) == Len(scenes) = 0

\* number of sentences the loop hands to scene i (counted from 1)
SentenceCount(i, sentences, scenes) ==
    LET purpose == <<Get(scenes[i], "purpose", "")>>
    IN (Len(sentences) \div Len(scenes))
       + (IF Contains(purpose, "hook") \/ Contains(purpose, "cta")
          THEN 1 ELSE 0)
       + (IF i - 1 < Len(sentences) % Len(scenes) THEN 1 ELSE 0)

\* idx when the loop reaches scene i
RECURSIVE SentenceIndex(_, _, _)
SentenceIndex(i, sentences, scenes) ==
    IF i = 1 THEN 0
    ELSE SentenceIndex(i - 1, sentences, scenes)
         + SentenceCount(i - 1, sentences, scenes)

\* _split_script_intelligently that hands a single scene the first two
\* sentences
SplitScriptConciseHook(script, scenes) ==
    LET sentences == Sentences(script)
        n == Len(scenes)
        at(i) == SentenceIndex(i, sentences, scenes)
        rest == IF at(n + 1) < Len(sentences)
                THEN Flatten(Slice(sentences, at(n + 1), Len(sentences)))
                ELSE <<>>
    IN IF n = 1 THEN <<Flatten(Slice(sentences, 0, 2))>>
       ELSE [i \in 1..n |->
                Flatten(Slice(sentences, at(i), at(i + 1)))
                \o (IF i = n THEN rest ELSE <<>>)]

\* _split_script_intelligently: the whole script for one scene, else one
\* part per scene and the sentences left over added to the last part
SplitScriptIntelligently(script, scenes) ==
    LET sentences == Sentences(script)
        n == Len(scenes)
        at(i) == SentenceIndex(i, sentences, scenes)
        rest == IF at(n + 1) < Len(sentences)
                THEN Flatten(Slice(sentences, at(n + 1), Len(sentences)))
                ELSE <<>>
    IN IF n = 1 THEN <<script>>
       ELSE [i \in 1..n |->
                Flatten(Slice(sentences, at(i), at(i + 1)))
                \o (IF i = n THEN rest ELSE <<>>)]

\* build_all_scene_prompts; texts[i] is the text build_scene_prompt
\* composed for scene i
BuildAllScenePrompts(variant, full_script, texts) ==
    LET scenes == variant.modified_scenes
        script_parts == SplitScriptIntelligently(full_script, scenes)
    IN [i \in 1..Len(scenes) |->
           [scene_number |-> Get(scenes[i], "scene_number", None),
            timestamp |-> Get(scenes[i], "timestamp", None),
            purpose |-> Get(scenes[i], "purpose", None),
            prompt |-> texts[i],
            script_segment |-> IF i - 1 < Len(script_parts)
                               THEN script_parts[i] ELSE full_script,
            has_character |-> Get(scenes[i], "has_character", TRUE)]]

SourceSceneLists ==
    UNION {{s \in [1..n -> [scene_number : 1..MaxScenes,
                            has_character : BOOLEAN,
                            type : {"source"}]] :
               \A i \in 1..n : s[i].scene_number = i} : n \in 0..MaxScenes}

NoAnalysis ==
    [script_is_dict |-> FALSE, scene_breakdown |-> <<>>, vertical |-> None,
     transformed |-> FALSE]

\* the mock analysis of script-only and image-to-video mode: 'script' is a
\* string, the scenes are under 'scenes', there is no 'scene_breakdown'
MockAnalysis ==
    [script_is_dict |-> FALSE, scene_breakdown |-> <<>>,
     vertical |-> "general", transformed |-> FALSE]

\* what analyze_and_save returns for the video
VideoAnalysis ==
    [script_is_dict |-> TRUE, scene_breakdown |-> source_scenes,
     vertical |-> None, transformed |-> FALSE]

\* scene_1 of transform_to_sora_structure
TransformedScenes ==
    <<[scene_number |-> 1, has_character |-> FALSE, type |-> "enhanced_scene"]>>

EmptyMap == [l \in {} |-> 0]

\* PipelineLogger.start_stage / complete_stage / fail_stage on the pair of
\* stage table and event list; without a logger the driver skips the call
StartStage(lg, name) ==
    IF has_logger
    THEN [stages |-> [lg.stages EXCEPT ![name] = "in_progress"],
          events |-> Append(lg.events, <<"start", name>>)]
    ELSE lg

CompleteStage(lg, name) ==
    IF has_logger
    THEN [stages |-> [lg.stages EXCEPT ![name] = "completed"],
          events |-> Append(lg.events, <<"complete", name>>)]
    ELSE lg

FailStage(lg, name) ==
    IF has_logger
    THEN [stages |-> [lg.stages EXCEPT ![name] = "failed"],
          events |-> Append(lg.events, <<"fail", name>>)]
    ELSE lg

Logger == [stages |-> stages, events |-> events]

\* the requested level, else medium (generate_variants always has it)
TargetVariant(variants, level) ==
    IF \E i \in 1..Len(variants) : variants[i].variant_level = level
    THEN variants[CHOOSE i \in 1..Len(variants) :
                      variants[i].variant_level = level]
    ELSE variants[CHOOSE i \in 1..Len(variants) :
                      variants[i].variant_level = "medium"]

PipeStart ==
    /\ video_path \in InputModes
    /\ has_logger \in BOOLEAN
    /\ aggression_level \in LevelSet \cup {"other"}
    /\ source_scenes \in SourceSceneLists
    /\ video_path # "video" => source_scenes = <<>>
    /\ spc = "analysis"
    /\ stages = [n \in StageNames |-> "pending"]
    /\ events = <<>>
    /\ analysis = NoAnalysis
    /\ analysis_path = None
    /\ transform_exc = None
    /\ all_variants = <<>>
    /\ variant_prompts = EmptyMap
    /\ validation_log = EmptyMap
    /\ generated_variants = EmptyMap
    /\ submitted_prompts = <<>>
    /\ raised_in = None
    /\ final_result = <<>>

\* script-only and image-to-video mode: start_stage('analysis') and the mock
\* analysis; the stage is not completed
AnalysisMock ==
    /\ spc = "analysis"
    /\ video_path # "video"
    /\ LET lg == StartStage(Logger, "analysis")
       IN stages' = lg.stages /\ events' = lg.events
    /\ analysis' = MockAnalysis
    /\ analysis_path' = None
    /\ spc' = "transform"
    /\ UNCHANGED <<coordVars, auxVars>>
    /\ UNCHANGED <<video_path, has_logger, aggression_level, source_scenes,
                   transform_exc, all_variants, variant_prompts,
                   validation_log, generated_variants, submitted_prompts,
                   raised_in, final_result>>

\* video mode, analyze_and_save returned
AnalysisOk ==
    /\ spc = "analysis"
    /\ video_path = "video"
    /\ LET lg == CompleteStage(StartStage(Logger, "analysis"), "analysis")
       IN stages' = lg.stages /\ events' = lg.events
    /\ analysis' = VideoAnalysis
    /\ analysis_path' = "analysis.json"
    /\ spc' = "transform"
    /\ UNCHANGED <<coordVars, auxVars>>
    /\ UNCHANGED <<video_path, has_logger, aggression_level, source_scenes,
                   transform_exc, all_variants, variant_prompts,
                   validation_log, generated_variants, submitted_prompts,
                   raised_in, final_result>>

\* video mode, the try block raised: fail_stage('analysis'); raise
AnalysisRaises ==
    /\ spc = "analysis"
    /\ video_path = "video"
    /\ LET lg == FailStage(StartStage(Logger, "analysis"), "analysis")
       IN stages' = lg.stages /\ events' = lg.events
    /\ raised_in' = "analysis"
    /\ spc' = "raised"
    /\ UNCHANGED <<coordVars, auxVars>>
    /\ UNCHANGED <<video_path, has_logger, aggression_level, source_scenes,
                   analysis, analysis_path, transform_exc, all_variants,
                   variant_prompts, validation_log, generated_variants,
                   submitted_prompts, final_result>>

\* detect_vertical raised (always when 'script' is a string): caught
TransformDetectRaises ==
    /\ spc = "transform"
    /\ transform_exc' = "detect_vertical"
    /\ spc' = "variants"
    /\ UNCHANGED <<coordVars, auxVars>>
    /\ UNCHANGED <<video_path, has_logger, aggression_level, source_scenes,
                   stages, events, analysis, analysis_path, all_variants,
                   variant_prompts, validation_log, generated_variants,
                   submitted_prompts, raised_in, final_result>>

\* a transform step that stores the scenes before the failing call
TransformStructureRaisesLate ==
    /\ spc = "transform"
    /\ analysis.script_is_dict
    /\ transform_exc' = "transform_to_sora_structure"
    /\ analysis' = [analysis EXCEPT !.scene_breakdown = TransformedScenes]
    /\ spc' = "variants"
    /\ UNCHANGED <<coordVars, auxVars>>
    /\ UNCHANGED <<video_path, has_logger, aggression_level, source_scenes,
                   stages, events, analysis_path, all_variants,
                   variant_prompts, validation_log, generated_variants,
                   submitted_prompts, raised_in, final_result>>

\* transform_to_sora_structure raised: caught, analysis not yet assigned
TransformStructureRaises ==
    /\ spc = "transform"
    /\ analysis.script_is_dict
    /\ transform_exc' = "transform_to_sora_structure"
    /\ spc' = "variants"
    /\ UNCHANGED <<coordVars, auxVars>>
    /\ UNCHANGED <<video_path, has_logger, aggression_level, source_scenes,
                   stages, events, analysis, analysis_path, all_variants,
                   variant_prompts, validation_log, generated_variants,
                   submitted_prompts, raised_in, final_result>>

\* both calls returned: the analysis takes the transformed scenes
TransformOk ==
    /\ spc = "transform"
    /\ analysis.script_is_dict
    /\ \E vertical \in {"solar", "ecommerce"} :
          analysis' = [analysis EXCEPT !.scene_breakdown = TransformedScenes,
                                       !.vertical = vertical,
                                       !.transformed = TRUE]
    /\ spc' = "variants"
    /\ UNCHANGED <<coordVars, auxVars>>
    /\ UNCHANGED <<video_path, has_logger, aggression_level, source_scenes,
                   stages, events, analysis_path, transform_exc, all_variants,
                   variant_prompts, validation_log, generated_variants,
                   submitted_prompts, raised_in, final_result>>

\* generate_variants returned (the generator holds a table that has every
\* key); all_variants = [target_variant]
VariantsOk ==
    /\ spc = "variants"
    /\ LET lg == CompleteStage(StartStage(Logger, "variants"), "variants")
       IN stages' = lg.stages /\ events' = lg.events
    /\ all_variants' =
          <<TargetVariant(GenerateVariants(analysis, DefaultPresets),
                          aggression_level)>>
    /\ spc' = "prompts"
    /\ UNCHANGED <<coordVars, auxVars>>
    /\ UNCHANGED <<video_path, has_logger, aggression_level, source_scenes,
                   analysis, analysis_path, transform_exc, variant_prompts,
                   validation_log, generated_variants, submitted_prompts,
                   raised_in, final_result>>

\* a variants handler without its raise: the run goes on with no variant
VariantsRaisesSwallowed ==
    /\ spc = "variants"
    /\ LET lg == FailStage(StartStage(Logger, "variants"), "variants")
       IN stages' = lg.stages /\ events' = lg.events
    /\ raised_in' = "variants"
    /\ spc' = "cost"
    /\ UNCHANGED <<coordVars, auxVars>>
    /\ UNCHANGED <<video_path, has_logger, aggression_level, source_scenes,
                   analysis, analysis_path, transform_exc, all_variants,
                   variant_prompts, validation_log, generated_variants,
                   submitted_prompts, final_result>>

\* the try block of the variants stage raised: fail_stage('variants'); raise
VariantsRaises ==
    /\ spc = "variants"
    /\ LET lg == FailStage(StartStage(Logger, "variants"), "variants")
       IN stages' = lg.stages /\ events' = lg.events
    /\ raised_in' = "variants"
    /\ spc' = "raised"
    /\ UNCHANGED <<coordVars, auxVars>>
    /\ UNCHANGED <<video_path, has_logger, aggression_level, source_scenes,
                   analysis, analysis_path, transform_exc, all_variants,
                   variant_prompts, validation_log, generated_variants,
                   submitted_prompts, final_result>>

\* prompts built, validated (a warning is all an error causes), stored and
\* written to the prompts file next to the analysis file
PromptsOk ==
    /\ spc = "prompts"
    /\ analysis.script_is_dict
    /\ analysis_path # None
    /\ ~SplitRaises(all_variants[1].modified_scenes)
    /\ \E texts \in [1..Len(all_variants[1].modified_scenes) -> BuilderTexts] :
          LET variant == all_variants[1]
              composed_prompts == BuildAllScenePrompts(variant, <<>>, texts)
              errors_count == ValidateAllPromptsErrors(composed_prompts)
          IN /\ variant_prompts' =
                   [l \in {variant.variant_level} |-> composed_prompts]
             /\ validation_log' =
                   [l \in {variant.variant_level} |-> errors_count]
    /\ LET lg == CompleteStage(StartStage(Logger, "prompts"), "prompts")
       IN stages' = lg.stages /\ events' = lg.events
    /\ spc' = "cost"
    /\ UNCHANGED <<coordVars, auxVars>>
    /\ UNCHANGED <<video_path, has_logger, aggression_level, source_scenes,
                   analysis, analysis_path, transform_exc, all_variants,
                   generated_variants, submitted_prompts, raised_in,
                   final_result>>

\* the try block of the prompts stage raised (always in the mock modes,
\* where 'script' is a string and analysis_path is None, and always for a
\* variant without scenes): fail_stage; raise
PromptsRaises ==
    /\ spc = "prompts"
    /\ LET lg == FailStage(StartStage(Logger, "prompts"), "prompts")
       IN stages' = lg.stages /\ events' = lg.events
    /\ raised_in' = "prompts"
    /\ spc' = "raised"
    /\ UNCHANGED <<coordVars, auxVars>>
    /\ UNCHANGED <<video_path, has_logger, aggression_level, source_scenes,
                   analysis, analysis_path, transform_exc, all_variants,
                   variant_prompts, validation_log, generated_variants,
                   submitted_prompts, final_result>>

\* if Config.ENABLE_COST_OPTIMIZATION: the attribute lookup is outside every
\* try block of the driver
CostOptimizationGate ==
    /\ spc = "cost"
    /\ IF "ENABLE_COST_OPTIMIZATION" \in ConfigAttributes
       THEN /\ spc' = "generation"
            /\ UNCHANGED raised_in
       ELSE /\ spc' = "raised"
            /\ raised_in' = "AttributeError"
    /\ UNCHANGED <<coordVars, auxVars>>
    /\ UNCHANGED <<video_path, has_logger, aggression_level, source_scenes,
                   stages, events, analysis, analysis_path, transform_exc,
                   all_variants, variant_prompts, validation_log,
                   generated_variants, submitted_prompts, final_result>>

CoordIdle ==
    /\ scene_prompts = <<>>
    /\ pc = "idle"
    /\ jobs = <<>>
    /\ pending_jobs = <<>>
    /\ sweep = <<>>
    /\ idx = 0
    /\ completed_videos = <<>>
    /\ backend = [j \in JobIds |-> None]
    /\ created = <<>>
    /\ polled = 0
    /\ downloads = <<>>
    /\ exc = None
    /\ result = <<>>

PipeIdle ==
    /\ video_path = "video"
    /\ has_logger = FALSE
    /\ aggression_level = "medium"
    /\ source_scenes = <<>>
    /\ spc = "idle"
    /\ stages = [n \in StageNames |-> "pending"]
    /\ events = <<>>
    /\ analysis = NoAnalysis
    /\ analysis_path = None
    /\ transform_exc = None
    /\ all_variants = <<>>
    /\ variant_prompts = EmptyMap
    /\ validation_log = EmptyMap
    /\ generated_variants = EmptyMap
    /\ submitted_prompts = <<>>
    /\ raised_in = None
    /\ final_result = <<>>

PipeInit == PipeStart /\ CoordIdle /\ AuxIdle

PipeNext ==
    \/ AnalysisMock
    \/ AnalysisOk
    \/ AnalysisRaises
    \/ TransformDetectRaises
    \/ TransformStructureRaises
    \/ TransformOk
    \/ VariantsOk
    \/ VariantsRaises
    \/ PromptsOk
    \/ PromptsRaises
    \/ CostOptimizationGate

PipeSpec == PipeInit /\ [][PipeNext]_vars

(***************************************************************************)
(* Part III.  PipelineLogger.log called by two threads on one logger.      *)
(* The text of events.json is a sequence of tokens: the brackets and the   *)
(* separator of the JSON list are negative, an event is a positive number. *)
(***************************************************************************)
MaxLogCalls == 1

LBracket == -1

Comma == -2

RBracket == -3

NUL == -4

\* the event logged by PipelineLogger.__init__
SessionStarted == 100

\* the event of the n-th log() call of thread t
Event(t, n) == 10 * t + n

NoFile == [n |-> 0, pos |-> 0, buf |-> <<>>, i |-> 0]

\* file.write at an offset: bytes under the data are overwritten, bytes
\* after it stay, a gap before the offset reads as NUL bytes
WriteAt(file, pos, data) ==
    LET padded == IF Len(file) < pos
                  THEN file \o [k \in 1..(pos - Len(file)) |-> NUL]
                  ELSE file
    IN SubSeq(padded, 1, pos) \o data
       \o SubSeq(padded, pos + Len(data) + 1, Len(padded))

\* whether json.load accepts the text
WellFormed(f) ==
    /\ Len(f) >= 2
    /\ f[1] = LBracket
    /\ f[Len(f)] = RBracket
    /\ \/ Len(f) = 2
       \/ /\ Len(f) % 2 = 1
          /\ \A k \in 2..(Len(f) - 1) :
                IF k % 2 = 0 THEN f[k] > 0 ELSE f[k] = Comma

\* the list json.load returns for a well-formed text
ParseEvents(f) == [k \in 1..((Len(f) - 1) \div 2) |-> f[2 * k]]

\* the logger after __init__: one event in memory and on disk
LogStart ==
    /\ log_events = <<SessionStarted>>
    /\ events_json = <<LBracket, SessionStarted, RBracket>>
    /\ tpc = [t \in Threads |-> "ready"]
    /\ fh = [t \in Threads |-> NoFile]

\* log(): build the event, self.events.append(event)
LogAppend(t) ==
    /\ tpc[t] = "ready"
    /\ fh[t].n < MaxLogCalls
    /\ log_events' = Append(log_events, Event(t, fh[t].n + 1))
    /\ fh' = [fh EXCEPT ![t].n = @ + 1]
    /\ tpc' = [tpc EXCEPT ![t] = "appended"]
    /\ UNCHANGED events_json
    /\ UNCHANGED <<coordVars, pipeVars, fnVars, intVars>>

\* _save_events: open(self.events_log, 'w') truncates the file
OpenEventsLog(t) ==
    /\ tpc[t] = "appended"
    /\ events_json' = <<>>
    /\ fh' = [fh EXCEPT ![t].pos = 0, ![t].buf = <<>>, ![t].i = 1]
    /\ tpc' = [tpc EXCEPT ![t] = "dump"]
    /\ UNCHANGED log_events
    /\ UNCHANGED <<coordVars, pipeVars, fnVars, intVars>>

\* json.dump: the encoder iterates over self.events itself and hands the
\* text of the next element to f.write, which buffers it
EncodeItem(t) ==
    /\ tpc[t] = "dump"
    /\ fh[t].i <= Len(log_events)
    /\ fh' = [fh EXCEPT
                 ![t].buf = @ \o <<IF fh[t].i = 1 THEN LBracket ELSE Comma,
                                   log_events[fh[t].i]>>,
                 ![t].i = @ + 1]
    /\ UNCHANGED <<log_events, events_json, tpc>>
    /\ UNCHANGED <<coordVars, pipeVars, fnVars, intVars>>

\* json.dump: the iteration is over, the closing bracket is written
EncodeEnd(t) ==
    /\ tpc[t] = "dump"
    /\ fh[t].i > Len(log_events)
    /\ fh' = [fh EXCEPT
                 ![t].buf = @ \o (IF fh[t].i = 1 THEN <<LBracket>> ELSE <<>>)
                            \o <<RBracket>>]
    /\ tpc' = [tpc EXCEPT ![t] = "close"]
    /\ UNCHANGED <<log_events, events_json>>
    /\ UNCHANGED <<coordVars, pipeVars, fnVars, intVars>>

\* f.write with a full buffer: the buffered text goes to the file at the
\* offset of this file object
FlushBuffer(t) ==
    /\ tpc[t] = "dump"
    /\ fh[t].buf # <<>>
    /\ events_json' = WriteAt(events_json, fh[t].pos, fh[t].buf)
    /\ fh' = [fh EXCEPT ![t].pos = @ + Len(fh[t].buf), ![t].buf = <<>>]
    /\ UNCHANGED <<log_events, tpc>>
    /\ UNCHANGED <<coordVars, pipeVars, fnVars, intVars>>

\* end of the with block: the rest of the buffer is written, log() returns
CloseEventsLog(t) ==
    /\ tpc[t] = "close"
    /\ events_json' = WriteAt(events_json, fh[t].pos, fh[t].buf)
    /\ fh' = [fh EXCEPT ![t].pos = 0, ![t].buf = <<>>, ![t].i = 0]
    /\ tpc' = [tpc EXCEPT ![t] = IF fh[t].n < MaxLogCalls THEN "ready"
                                 ELSE "done"]
    /\ UNCHANGED log_events
    /\ UNCHANGED <<coordVars, pipeVars, fnVars, intVars>>

LogInit == LogStart /\ CoordIdle /\ PipeIdle /\ FnIdle /\ IntIdle

LogNext ==
    \/ \E t \in Threads : LogAppend(t)
    \/ \E t \in Threads : OpenEventsLog(t)
    \/ \E t \in Threads : EncodeItem(t)
    \/ \E t \in Threads : EncodeEnd(t)
    \/ \E t \in Threads : FlushBuffer(t)
    \/ \E t \in Threads : CloseEventsLog(t)

LogSpec == LogInit /\ [][LogNext]_vars

(***************************************************************************)
(* Part IV.  One call of a library function: the arguments it is given and *)
(* the step that runs it.                                                  *)
(***************************************************************************)
EmotionTexts ==
    {<<>>, <<"Frustrated", "and", "tired">>, <<"EXCITED">>,
     <<"calm", "but", "urgent">>, <<"worried", "determined">>, <<"neutral">>,
     <<"determined", "excited">>}

\* emotion_keywords lists of a preset
KeywordLists ==
    {<<>>, <<<<"calm">>, <<"peaceful">>>>, <<<<"explosive">>>>,
     <<<<"calm", "yet", "explosive">>>>}

EmotionSceneLists ==
    UNION {{s \in [1..n -> [scene_number : 1..MaxScenes,
                            emotion : EmotionTexts]] :
               \A i \in 1..n : s[i].scene_number = i} : n \in 0..MaxScenes}

\* analysis documents with a scene_breakdown, and one without the key
GeneratorAnalyses ==
    {[scene_breakdown |-> s] : s \in EmotionSceneLists}
    \cup {[video_title |-> "ad"]}

\* tables get_aggression_presets can return: the stored presets are JSON
\* values that the settings page edits
ContradictoryKeyword ==
    [DefaultPresets EXCEPT
        !.soft.emotion_keywords = <<<<"calm", "yet", "explosive">>>>]

EmptyKeywords == [DefaultPresets EXCEPT !.aggressive.emotion_keywords = <<>>]

WithoutLevel(level) == [l \in LevelSet \ {level} |-> DefaultPresets[l]]

WithoutKey(level, key) == [DefaultPresets EXCEPT ![level].keys = @ \ {key}]

SettingsTables ==
    {DefaultPresets, ContradictoryKeyword, EmptyKeywords,
     WithoutLevel("ultra"), WithoutLevel("soft"),
     WithoutKey("medium", "tone"), WithoutKey("ultra", "music")}

\* what the settings source does: raise, or return a table (the table of an
\* outcome that raises is never looked at)
SettingsOutcomes ==
    {[raises |-> TRUE, table |-> DefaultPresets]}
    \cup {[raises |-> FALSE, table |-> t] : t \in SettingsTables}

Purposes == {"Hook", "problem", "CTA"}

BuilderSceneLists ==
    UNION {{s \in [1..n -> [scene_number : 1..MaxScenes,
                            purpose : Purposes,
                            has_character : BOOLEAN]] :
               \A i \in 1..n : s[i].scene_number = i} : n \in 0..MaxScenes}

\* a text of build_scene_prompt that the validator finds nothing wrong with
PlainText ==
    [length |-> 400, terms |-> {"camera"}, overlays |-> 1, bad_timings |-> 0]

Functions ==
    {"normalize_spokesperson", "validate_prompt", "generate_variants",
     "build_all_scene_prompts", "_split_script_intelligently",
     "_adjust_emotion", "_build_broll_prompt"}

Arguments(f) ==
    CASE f = "normalize_spokesperson" -> AnalysisDocuments
      [] f = "validate_prompt" ->
            [prompt : PromptTexts, scene_info : SceneInfos]
      [] f = "generate_variants" ->
            [settings : SettingsOutcomes, analysis : GeneratorAnalyses]
      [] f = "build_all_scene_prompts" ->
            [variant : {[variant_level |-> "medium", modified_scenes |-> s] :
                           s \in BuilderSceneLists},
             full_script : Scripts]
      [] f = "_split_script_intelligently" ->
            [script : Scripts, scenes : BuilderSceneLists]
      [] f = "_adjust_emotion" ->
            [original_emotion : EmotionTexts,
             emotion_keywords : KeywordLists,
             aggression_level : LevelSet]
      [] f = "_build_broll_prompt" ->
            [scene : BrollScenes, variant : BrollVariants,
             script : BrollScripts]

FnStart ==
    /\ fn \in Functions
    /\ arg \in Arguments(fn)
    /\ presets = <<>>
    /\ ret = <<>>
    /\ fpc = IF fn = "generate_variants" THEN "construct" ELSE "call"

\* AggressionVariantGenerator()
ConstructGenerator ==
    /\ fn = "generate_variants"
    /\ fpc = "construct"
    /\ presets' = LoadPresets(arg.settings)
    /\ fpc' = "call"
    /\ UNCHANGED <<fn, arg, ret>>
    /\ UNCHANGED <<coordVars, pipeVars, logVars, intVars>>

\* generate_variants(analysis)
CallGenerateVariants ==
    /\ fn = "generate_variants"
    /\ fpc = "call"
    /\ ret' = IF GenerateVariantsRaises(arg.analysis, presets)
              THEN Raises("KeyError")
              ELSE Returns(GenerateVariants(arg.analysis, presets))
    /\ fpc' = "done"
    /\ UNCHANGED <<fn, arg, presets>>
    /\ UNCHANGED <<coordVars, pipeVars, logVars, intVars>>

\* build_all_scene_prompts(variant, spokesperson_description, full_script)
CallBuildAllScenePrompts ==
    /\ fn = "build_all_scene_prompts"
    /\ fpc = "call"
    /\ LET scenes == arg.variant.modified_scenes
       IN ret' = IF SplitRaises(scenes)
                 THEN Raises("ZeroDivisionError")
                 ELSE Returns(BuildAllScenePrompts(arg.variant,
                          arg.full_script,
                          [i \in 1..Len(scenes) |-> PlainText]))
    /\ fpc' = "done"
    /\ UNCHANGED <<fn, arg, presets>>
    /\ UNCHANGED <<coordVars, pipeVars, logVars, intVars>>

\* _split_script_intelligently(script, scenes)
CallSplitScriptIntelligently ==
    /\ fn = "_split_script_intelligently"
    /\ fpc = "call"
    /\ ret' = IF SplitRaises(arg.scenes)
              THEN Raises("ZeroDivisionError")
              ELSE Returns(SplitScriptIntelligently(arg.script, arg.scenes))
    /\ fpc' = "done"
    /\ UNCHANGED <<fn, arg, presets>>
    /\ UNCHANGED <<coordVars, pipeVars, logVars, intVars>>

\* _adjust_emotion(original_emotion, emotion_keywords, aggression_level)
CallAdjustEmotion ==
    /\ fn = "_adjust_emotion"
    /\ fpc = "call"
    /\ ret' = Returns(AdjustEmotion(arg.original_emotion,
                                    arg.emotion_keywords,
                                    arg.aggression_level))
    /\ fpc' = "done"
    /\ UNCHANGED <<fn, arg, presets>>
    /\ UNCHANGED <<coordVars, pipeVars, logVars, intVars>>

FnInit == FnStart /\ CoordIdle /\ PipeIdle /\ LogIdle /\ IntIdle

FnNext ==
    \/ CallNormalizeSpokesperson
    \/ NormalizeAgain
    \/ CallValidatePrompt
    \/ ConstructGenerator
    \/ CallGenerateVariants
    \/ CallBuildAllScenePrompts
    \/ CallSplitScriptIntelligently
    \/ CallAdjustEmotion
    \/ CallBuildBrollPrompt
    \/ ValidateBuilt

FnSpec == FnInit /\ [][FnNext]_vars

(***************************************************************************)
(* Part V.  pipeline_integrator.PipelineIntegrator over the tables of      *)
(* generation_manager.GenerationManager.  A variant's id is its position   *)
(* in db_variants, a scene's id its position in db_scenes.                 *)
(***************************************************************************)
MaxCreatedScenes == 4

\* total_scenes that start_generation passes to create_variant
DefaultTotalScenes == 4

\* variant_types lists a caller passes to start_generation
VariantTypeLists == {<<"soft">>, <<"soft", "ultra">>}

IntStart ==
    /\ db_generation = <<>>
    /\ db_variants = <<>>
    /\ db_scenes = <<>>
    /\ ipc = "start"

\* start_generation: create_generation, one create_variant per type,
\* update_generation_status(generation_id, 'processing')
StartGeneration ==
    /\ ipc = "start"
    /\ \E variant_types \in VariantTypeLists :
          /\ db_generation' = <<[status |-> "processing",
                                 total_variants |-> Len(variant_types)]>>
          /\ db_variants' =
                [i \in 1..Len(variant_types) |->
                    [variant_type |-> variant_types[i],
                     status |-> "pending",
                     scenes_completed |-> 0,
                     total_scenes |-> DefaultTotalScenes]]
    /\ ipc' = "run"
    /\ UNCHANGED db_scenes
    /\ UNCHANGED <<coordVars, pipeVars, logVars, fnVars>>

\* the ids of the scene rows of a variant
ScenesOf(rows, variant_id) ==
    {i \in 1..Len(rows) : rows[i].variant_id = variant_id}

\* create_scene_records(generation_id, variant_type, prompts): one
\* create_scene per prompt, scene_number counted from 1
CreateSceneRecords(variant_id, n) ==
    /\ ipc = "run"
    /\ variant_id \in 1..Len(db_variants)
    /\ ScenesOf(db_scenes, variant_id) = {}
    /\ db_scenes' = db_scenes \o [i \in 1..n |->
                                     [variant_id |-> variant_id,
                                      scene_number |-> i,
                                      status |-> "pending"]]
    /\ UNCHANGED <<db_generation, db_variants, ipc>>
    /\ UNCHANGED <<coordVars, pipeVars, logVars, fnVars>>

\* _update_variant_progress: the variants table after a scene was stored
UpdateVariantProgress(rows, variant_id) ==
    LET scenes_completed ==
            Cardinality({i \in ScenesOf(rows, variant_id) :
                            rows[i].status = "completed"})
        total_scenes == db_variants[variant_id].total_scenes
    IN [db_variants EXCEPT
           ![variant_id].status = IF scenes_completed >= total_scenes
                                  THEN "completed" ELSE "processing",
           ![variant_id].scenes_completed = scenes_completed]

\* _check_generation_completion: the generations row after the variants
\* table was updated
CheckGenerationCompletion(variant_rows) ==
    IF \A v \in 1..Len(variant_rows) : variant_rows[v].status = "completed"
    THEN <<[db_generation[1] EXCEPT !.status = "completed"]>>
    ELSE db_generation

\* process_sora_video: the video is stored, the scene row is completed,
\* then _update_variant_progress and _check_generation_completion
ProcessSoraVideo(scene_id) ==
    /\ ipc = "run"
    /\ scene_id \in 1..Len(db_scenes)
    /\ db_scenes[scene_id].status = "pending"
    /\ db_scenes' = [db_scenes EXCEPT ![scene_id].status = "completed"]
    /\ db_variants' = UpdateVariantProgress(db_scenes',
                                            db_scenes[scene_id].variant_id)
    /\ db_generation' = CheckGenerationCompletion(db_variants')
    /\ UNCHANGED ipc
    /\ UNCHANGED <<coordVars, pipeVars, logVars, fnVars>>

\* process_sora_video: process_and_store_video raised or returned no url;
\* the scene row is failed and the exception goes to the caller
ProcessSoraVideoFails(scene_id) ==
    /\ ipc = "run"
    /\ scene_id \in 1..Len(db_scenes)
    /\ db_scenes[scene_id].status = "pending"
    /\ db_scenes' = [db_scenes EXCEPT ![scene_id].status = "failed"]
    /\ UNCHANGED <<db_generation, db_variants, ipc>>
    /\ UNCHANGED <<coordVars, pipeVars, logVars, fnVars>>

IntInit == IntStart /\ CoordIdle /\ PipeIdle /\ LogIdle /\ FnIdle

IntNext ==
    \/ StartGeneration
    \/ \E v \in 1..Len(db_variants) :
          \E n \in 1..MaxCreatedScenes : CreateSceneRecords(v, n)
    \/ \E i \in 1..Len(db_scenes) : ProcessSoraVideo(i)
    \/ \E i \in 1..Len(db_scenes) : ProcessSoraVideoFails(i)

IntSpec == IntInit /\ [][IntNext]_vars


Init == CoordInit /\ PipeIdle /\ AuxIdle

Next ==
    \/ SubmitJob
    \/ SubmitRaises
    \/ StartMonitoring
    \/ BeginSweep
    \/ PollCompleted
    \/ DownloadOk
    \/ DownloadRaises
    \/ PollFailed
    \/ PollInProgress
    \/ PollRaises
    \/ EndSweep
    \/ ReturnResult
    \/ \E j \in JobIds : BackendStart(j)
    \/ \E j \in JobIds : BackendComplete(j)
    \/ \E j \in JobIds : BackendFail(j)

Spec == Init /\ [][Next]_vars

TypeOK ==
    /\ pc \in {"idle", "submit", "while", "for", "download", "returned",
              "raised"}
    /\ Len(jobs) <= Len(scene_prompts)
    /\ Len(result) <= 1

(***************************************************************************)
(* Fairness of Part I: the call keeps executing its next statement and the *)
(* backend keeps working on every job it has accepted.  Scene numbers are  *)
(* the contiguous 1-based numbering the prompt builder hands over.         *)
(***************************************************************************)
FairInit ==
    /\ CoordInit
    /\ PipeIdle
    /\ AuxIdle
    /\ \A i \in 1..Len(scene_prompts) :
          scene_prompts[i].scene_number = ((i - 1) % MaxSceneNumber) + 1

FairSpec ==
    /\ FairInit
    /\ [][Next]_vars
    /\ WF_vars(CoordStep)
    /\ \A j \in JobIds : WF_vars(BackendStart(j))
    /\ \A j \in JobIds : WF_vars(BackendComplete(j) \/ BackendFail(j))

Returned == pc = "returned"

Scenes == result[1].scenes

Range(s) == {s[i] : i \in 1..Len(s)}

Recorded(j) == \E i \in 1..Len(completed_videos) : completed_videos[i].job_id = j

EntriesOf(j) ==
    {completed_videos[i] : i \in {k \in 1..Len(completed_videos) :
                                      completed_videos[k].job_id = j}}

\* C1: whenever generate_variant_parallel has returned, the scenes list is in
\* ascending scene_number order, whatever order the jobs finished in.
C1_ScenesSorted ==
    Returned =>
        \A i \in 1..Len(Scenes) : \A k \in 1..Len(Scenes) :
            i < k => Scenes[i].scene_number <= Scenes[k].scene_number

\* reached: the call returned although a job with a larger scene number was
\* downloaded before a job with a smaller one
C1_Witness ==
    /\ Returned
    /\ \E i \in 1..Len(downloads) : \E k \in 1..Len(downloads) :
          /\ i < k
          /\ jobs[downloads[i]].scene_number > jobs[downloads[k]].scene_number

\* C2: when create_video raises for one prompt the call is not aborted: it
\* goes on and returns one entry per prompt with success false.
C2_SubmitFailureIsolated ==
    exc = "create_video" =>
        /\ pc # "raised"
        /\ Returned => /\ Len(Scenes) = Len(scene_prompts)
                       /\ ~result[1].success

\* C3: when get_video_status or download_video raises for one pending job
\* the call is not aborted: the job becomes a failed entry and the other
\* pending jobs are polled on until the call returns every entry.
C3_PollFailureIsolated ==
    exc \in {"get_video_status", "download_video"} =>
        /\ pc # "raised"
        /\ Returned => /\ Len(Scenes) = Len(scene_prompts)
                       /\ ~result[1].success

\* C4: the returned success flag is true exactly when no returned entry has
\* status failed; a failed job leaves the other entries in the result and an
\* empty prompt list gives success with zero scenes.
C4_SuccessIffNoFailedEntry ==
    Returned =>
        /\ result[1].success <=>
              ~(\E i \in 1..Len(Scenes) : Scenes[i].status = "failed")
        /\ result[1].success <=> Range(downloads) = 1..Len(jobs)
        /\ Len(Scenes) = Len(scene_prompts)
        /\ result[1].total_scenes = Len(Scenes)
        /\ scene_prompts = <<>> => result[1].success /\ Scenes = <<>>

\* reached: a result with a failed entry next to a completed one
C4_Witness ==
    /\ Returned
    /\ ~result[1].success
    /\ \E i \in 1..Len(Scenes) : Scenes[i].status = "failed"
    /\ \E i \in 1..Len(Scenes) : Scenes[i].video_path # None

\* C5: the poll loop ends exactly when the pending set is empty.  The call
\* returns only with no pending job and every job terminal at the backend,
\* never while a job is still queued or in progress (no timeout, no attempt
\* limit); with a backend that finishes every job the call always ends.
C5_LoopEndsWhenPendingEmpty ==
    /\ [](Returned =>
            /\ pending_jobs = <<>>
            /\ \A j \in 1..Len(jobs) : backend[j] \in Terminal)
    /\ [][(pc = "while" /\ pc' # pc) =>
             (pc' = "returned" <=> pending_jobs = <<>>)]_vars
    /\ <>(pc \in {"returned", "raised"})

\* reached: the call returned after more than one job had to be awaited
C5_Witness ==
    /\ Returned
    /\ Len(jobs) >= 2
    /\ \A j \in 1..Len(jobs) : backend[j] \in Terminal

\* C6: each prompt is submitted once, and a job observed completed or failed
\* leaves the pending set for good: no later poll, no resubmission, and its
\* recorded entry never changes.
C6_TerminalIsFinal ==
    /\ [](Cardinality(Range(created)) = Len(created))
    /\ [](pc \in {"while", "for", "download", "returned"} =>
            created = [i \in 1..Len(scene_prompts) |-> i])
    /\ [](\A j \in JobIds :
            Recorded(j) => /\ Cardinality(EntriesOf(j)) = 1
                           /\ \A i \in 1..Len(pending_jobs) :
                                 pending_jobs[i].job_id # j)
    /\ [][\A j \in JobIds :
            Recorded(j) =>
                /\ ~(polled' = j /\ (pc' # pc \/ idx' # idx))
                /\ Len(created') > Len(created) => created'[Len(created')] # j
                /\ EntriesOf(j)' = EntriesOf(j)]_vars

\* reached: a new sweep runs while an earlier job is already recorded
C6_Witness ==
    /\ pc = "for"
    /\ idx <= Len(sweep)
    /\ completed_videos # <<>>
    /\ Len(sweep) < Len(jobs)
    /\ \E j \in 1..Len(jobs) : Recorded(j) /\ backend[j] \in Terminal

Pending(j) == \E i \in 1..Len(pending_jobs) : pending_jobs[i].job_id = j

InPollLoop == pc \in {"while", "for", "download"}

\* C25: a job is submitted for every prompt, in prompt order, before the
\* first status poll; a submission never waits for an earlier job to reach
\* a terminal status, and nothing is polled or downloaded while a prompt is
\* still unsubmitted.
C25_SubmitAllBeforePolling ==
    /\ [](polled # 0 => created = [i \in 1..Len(scene_prompts) |-> i])
    /\ [](pc = "submit" => polled = 0 /\ downloads = <<>>)
    /\ []((pc = "submit" /\ Len(jobs) < Len(scene_prompts)) =>
            ENABLED SubmitJob)
    /\ [][Len(created') > Len(created) =>
             /\ pc = "submit"
             /\ created' = Append(created, Len(created) + 1)]_vars
    /\ [][(pc = "submit" /\ pc' = "while") =>
             /\ Len(jobs) = Len(scene_prompts)
             /\ \A i \in 1..Len(jobs) : jobs[i].job_id = i]_vars

\* reached: the first poll is made with every job submitted and with an
\* earlier job still not terminal
C25_Witness ==
    /\ pc = "for"
    /\ polled # 0
    /\ Len(jobs) >= 2
    /\ Len(created) = Len(scene_prompts)
    /\ completed_videos = <<>>
    /\ \A j \in 1..Len(jobs) : backend[j] \in NonTerminal

\* C27: in the poll loop every submitted job is in exactly one of the
\* pending list and the result list, once; on return the result has one
\* entry per prompt and total_scenes is that number.
C27_PendingOrRecorded ==
    /\ InPollLoop =>
          /\ \A j \in 1..Len(jobs) :
                /\ Pending(j) # Recorded(j)
                /\ Cardinality({i \in 1..Len(pending_jobs) :
                                   pending_jobs[i].job_id = j})
                   + Cardinality({i \in 1..Len(completed_videos) :
                                     completed_videos[i].job_id = j}) = 1
          /\ Len(pending_jobs) + Len(completed_videos) = Len(jobs)
    /\ Returned =>
          /\ Len(Scenes) = Len(scene_prompts)
          /\ result[1].total_scenes = Len(scene_prompts)
          /\ \A j \in 1..Len(jobs) :
                Cardinality({i \in 1..Len(Scenes) : Scenes[i].job_id = j}) = 1

\* reached: in the middle of a sweep one job is recorded and another one
\* is still pending
C27_Witness ==
    /\ pc = "for"
    /\ Len(jobs) >= 2
    /\ \E j \in 1..Len(jobs) : Recorded(j) /\ ~Pending(j)
    /\ \E j \in 1..Len(jobs) : Pending(j) /\ ~Recorded(j)

\* C28: download_video is called only for the job just polled as
\* completed, while that job is still pending, and once per job; never for
\* a failed or unfinished job; every recorded entry that is not failed has
\* a video_path.
C28_DownloadOnlyCompleted ==
    /\ [](Cardinality(Range(downloads)) = Len(downloads))
    /\ [](\A i \in 1..Len(downloads) : backend[downloads[i]] = "completed")
    /\ [][downloads' # downloads =>
             /\ pc = "download"
             /\ downloads' = Append(downloads, polled)
             /\ backend[polled] = "completed"
             /\ Pending(polled)
             /\ ~Recorded(polled)]_vars
    /\ [](\A i \in 1..Len(completed_videos) :
             completed_videos[i].status # "failed" =>
                 /\ completed_videos[i].video_path # None
                 /\ completed_videos[i].job_id \in Range(downloads))
    /\ [](\A i \in 1..Len(completed_videos) :
             completed_videos[i].status = "failed" =>
                 completed_videos[i].job_id \notin Range(downloads))
    /\ [](Returned =>
             \A j \in 1..Len(jobs) :
                 backend[j] = "completed" <=> j \in Range(downloads))

\* reached: the call returned with one job downloaded and another failed
C28_Witness ==
    /\ Returned
    /\ Len(downloads) >= 1
    /\ Len(downloads) < Len(jobs)
    /\ \E i \in 1..Len(Scenes) : Scenes[i].status = "failed"

(***************************************************************************)
(* Claims on generate_scene1, checked under PipeSpec.                      *)
(***************************************************************************)
FatalStages == {"analysis", "variants", "prompts"}

Ended == spc \in {"raised", "returned"}

StageIndex(name) == CHOOSE i \in 1..Len(StageOrder) : StageOrder[i] = name

LaterStages(name) ==
    {StageOrder[i] : i \in {k \in 1..Len(StageOrder) : k > StageIndex(name)}}

\* the analysis as the analysis step left it
AnalysisBeforeTransform ==
    IF video_path = "video" THEN VideoAnalysis ELSE MockAnalysis

\* C7: an exception of the analysis, variants or prompts stage ends the run
\* with that exception: the logger has the stage as failed, no later stage
\* was started, no job was submitted and no result is returned.
C7_FatalStagePropagates ==
    raised_in \in FatalStages =>
        /\ spc = "raised"
        /\ has_logger =>
              /\ stages[raised_in] = "failed"
              /\ events[Len(events)] = <<"fail", raised_in>>
        /\ \A n \in LaterStages(raised_in) :
              /\ stages[n] = "pending"
              /\ \A i \in 1..Len(events) : events[i][2] # n
        /\ generated_variants = EmptyMap
        /\ submitted_prompts = <<>>
        /\ final_result = <<>>

\* reached: the prompts stage of a logged video run raised
C7_Witness ==
    /\ raised_in = "prompts"
    /\ has_logger
    /\ video_path = "video"
    /\ stages["prompts"] = "failed"
    /\ stages["variants"] = "completed"

\* C8: when detect_vertical or transform_to_sora_structure raises, the run
\* goes on to the variants stage and the analysis stays as it was before the
\* transform step; the variant is built from those scenes.
C8_TransformFallback ==
    /\ [](transform_exc # None =>
            /\ spc # "transform"
            /\ raised_in \notin {"transform", "detect_vertical",
                                 "transform_to_sora_structure"}
            /\ analysis = AnalysisBeforeTransform
            /\ all_variants # <<>> =>
                  /\ Len(all_variants[1].modified_scenes) =
                        Len(AnalysisBeforeTransform.scene_breakdown)
                  /\ \A i \in 1..Len(all_variants[1].modified_scenes) :
                        all_variants[1].modified_scenes[i].type = "source")
    /\ [][spc = "transform" /\ spc' # spc => spc' = "variants"]_vars

\* reached: the transform call raised on a two-scene video analysis and the
\* variant was built afterwards
C8_Witness ==
    /\ transform_exc = "transform_to_sora_structure"
    /\ Len(source_scenes) = 2
    /\ all_variants # <<>>
    /\ Len(all_variants[1].modified_scenes) = 2

\* C9: a run that got through the prompts stage attempts every variant in
\* the generation stage, records a variant whose generation raised as
\* {success: false, error}, and has the stage marked complete at the end.
C9_GenerationAttemptsEveryVariant ==
    (Ended /\ raised_in \notin FatalStages) =>
        /\ DOMAIN generated_variants = DOMAIN variant_prompts
        /\ has_logger => stages["generation"] = "completed"

\* C10: a variant whose validation report counts errors keeps its prompts
\* unchanged, the prompts stage does not fail, and every prompt of it is
\* handed to the generation backend.
C10_ValidationNeverBlocks ==
    \A l \in DOMAIN validation_log :
        (Ended /\ validation_log[l] > 0) =>
            /\ raised_in # "prompts"
            /\ l \in DOMAIN variant_prompts
            /\ \A i \in 1..Len(variant_prompts[l]) :
                  \E k \in 1..Len(submitted_prompts) :
                      submitted_prompts[k] = variant_prompts[l][i]

\* C11: every stage the driver has entered has a start event, each start
\* event is followed by the complete or fail event of the same stage before
\* any other stage's start event, and no stage is in_progress once a later
\* stage has started or the run has ended.
C11_StageLifecycle ==
    has_logger =>
        /\ \A i \in 1..Len(events) :
              (events[i][1] = "start" /\ i < Len(events)) =>
                  /\ events[i + 1][1] \in {"complete", "fail"}
                  /\ events[i + 1][2] = events[i][2]
        /\ \A n \in StageNames :
              stages[n] = "in_progress" =>
                  /\ ~Ended
                  /\ \A m \in LaterStages(n) : stages[m] = "pending"
        /\ spc \in {"variants", "prompts", "cost"} =>
              \E i \in 1..Len(events) : events[i] = <<"start", "transform">>

\* C12: a run that got through the prompts stage returns a dictionary that
\* names every variant of the generation stage with its success or failure.
C12_FinalReportEnumeratesVariants ==
    (Ended /\ raised_in \notin FatalStages) =>
        /\ final_result # <<>>
        /\ \A l \in DOMAIN variant_prompts :
              \E r \in Range(final_result) : l \in DOMAIN r.variants

(***************************************************************************)
(* Claims on PipelineLogger.log, checked under LogSpec.                    *)
(***************************************************************************)
LogCallsDone == \A t \in Threads : tpc[t] = "done"

Logged ==
    {SessionStarted} \cup {Event(t, n) : t \in Threads, n \in 1..MaxLogCalls}

\* C13: after the concurrent log() calls have finished, the in-memory event
\* list and events.json both hold every logged event exactly once: the file
\* is the JSON text of the whole list, not an older snapshot of it.
C13_NoLostEvent ==
    LogCallsDone =>
        /\ Len(log_events) = Cardinality(Logged)
        /\ Range(log_events) = Logged
        /\ WellFormed(events_json)
        /\ ParseEvents(events_json) = log_events

(***************************************************************************)
(* Claims on the library functions, checked under FnSpec.                  *)
(***************************************************************************)
FnDone(f) == fn = f /\ fpc = "done"

Outcome == ret[1]

\* C14: generate_variants returns exactly four variants, soft, medium,
\* aggressive, ultra in that order, each with one modified scene per scene
\* of the analysis, the i-th with the scene_number of the i-th scene.
C14_FourVariantsInSceneOrder ==
    FnDone("generate_variants") =>
        LET scene_breakdown == Get(arg.analysis, "scene_breakdown", <<>>)
        IN /\ Outcome.raised = None
           /\ Len(Outcome.value) = 4
           /\ \A i \in 1..4 :
                 /\ Outcome.value[i].variant_level = Levels[i]
                 /\ Len(Outcome.value[i].modified_scenes)
                       = Len(scene_breakdown)
                 /\ \A k \in 1..Len(scene_breakdown) :
                       Outcome.value[i].modified_scenes[k].scene_number
                          = scene_breakdown[k].scene_number

\* C15: whatever preset table the generator holds, no modified scene has an
\* emotion that contains both words of a pair of the contradiction table.
C15_NoContradictoryEmotion ==
    (FnDone("generate_variants") /\ Outcome.raised = None) =>
        \A i \in 1..Len(Outcome.value) :
            \A k \in 1..Len(Outcome.value[i].modified_scenes) :
                \A e \in CONTRADICTORY_EMOTIONS :
                    LET emotion == Outcome.value[i].modified_scenes[k].emotion
                    IN ~(Contains(emotion, e[1]) /\ Contains(emotion, e[2]))

\* C16: whether the settings source raised, returned a table without one of
\* the four levels or returned presets that are partly filled in,
\* generate_variants does not raise.
C16_PresetsNeverBlock ==
    FnDone("generate_variants") =>
        /\ LevelSet \subseteq DOMAIN presets
        /\ Outcome.raised = None

\* C17: build_all_scene_prompts returns one prompt record per modified
\* scene, in the same order, with the scene's scene_number, purpose and
\* has_character; an empty scene list gives an empty list.
C17_OnePromptPerScene ==
    FnDone("build_all_scene_prompts") =>
        LET scenes == arg.variant.modified_scenes
        IN /\ Outcome.raised = None
           /\ Len(Outcome.value) = Len(scenes)
           /\ \A i \in 1..Len(scenes) :
                 /\ Outcome.value[i].scene_number = scenes[i].scene_number
                 /\ Outcome.value[i].purpose = scenes[i].purpose
                 /\ Outcome.value[i].has_character = scenes[i].has_character

\* C18: a character prompt without a length error and without a
\* contradictory-emotion error is valid, however many warnings it has; under
\* 50 characters and without a quotation it has at least one warning.
C18_WarningsNeverFlipValidity ==
    (/\ FnDone("validate_prompt")
     /\ Get(arg.scene_info, "has_character", TRUE)
     /\ CheckLengthErrors(ReadPrompt(arg.prompt)) = 0
     /\ CheckEmotionsErrors(ReadPrompt(arg.prompt)) = 0) =>
        /\ Outcome.value.is_valid
        /\ (/\ ReadPrompt(arg.prompt).length < 50
            /\ \A i \in 1..Len(arg.prompt) : arg.prompt[i] # "\"Hi\" ") =>
              Outcome.value.warnings >= 1

\* C18 as the code has it: a character prompt without a length error,
\* without a contradictory-emotion error and without a text-overlay error
\* (more than 5 overlays, or a timing outside 0:00-0:12) is valid, however
\* many warnings it has; under 50 characters and without a quotation it has
\* at least one warning.
C18_ValidWithoutErrors ==
    (/\ FnDone("validate_prompt")
     /\ Get(arg.scene_info, "has_character", TRUE)
     /\ CheckLengthErrors(ReadPrompt(arg.prompt)) = 0
     /\ CheckEmotionsErrors(ReadPrompt(arg.prompt)) = 0
     /\ CheckTextOverlaysErrors(ReadPrompt(arg.prompt)) = 0) =>
        /\ Outcome.value.is_valid
        /\ Outcome.value.errors = 0
        /\ (/\ ReadPrompt(arg.prompt).length < 50
            /\ \A i \in 1..Len(arg.prompt) : arg.prompt[i] # "\"Hi\" ") =>
              Outcome.value.warnings >= 1

\* reached: a short character prompt without a quotation, valid with
\* several warnings
C18_Witness ==
    /\ FnDone("validate_prompt")
    /\ arg.scene_info = [has_character |-> TRUE, purpose |-> "hook"]
    /\ arg.prompt = <<"calm ">>
    /\ Outcome.value.warnings >= 2
    /\ Outcome.value.errors = 0
    /\ Outcome.value.is_valid

\* phrases that hold a forbidden person-referencing term in some letter case
PeoplePhrases ==
    {"Character ", "WOMAN ", "the ", "person ", "People ", "face ",
     "Spokesperson ", "actor ", "She ", "human ", "individual "}

\* C19: with has_character false, a prompt that holds a forbidden
\* person-referencing term anywhere, in any letter case, is invalid and has
\* the people-references error, whatever the other checks find.
C19_BrollPeopleReferences ==
    (/\ FnDone("validate_prompt")
     /\ ~Get(arg.scene_info, "has_character", TRUE)
     /\ \E i \in 1..Len(arg.prompt) : arg.prompt[i] \in PeoplePhrases) =>
        /\ ~Outcome.value.is_valid
        /\ Outcome.value.people_references

\* reached: an object-only prompt whose one error is the upper-case term
C19_Witness ==
    /\ FnDone("validate_prompt")
    /\ ~Get(arg.scene_info, "has_character", TRUE)
    /\ arg.prompt = <<"camera ", "Character ">>
    /\ Outcome.value.errors = 1
    /\ ~Outcome.value.is_valid

\* C20: normalize_spokesperson returns a dict for every analysis document:
\* the dict itself, the first element of a non-empty list, and an empty dict
\* for an empty list, a missing key or any other type.
C20_SingleRecord ==
    FnDone("normalize_spokesperson") =>
        /\ Outcome.raised = None
        /\ Outcome.value.type = "dict"
        /\ "spokesperson" \notin arg.keys => Outcome.value = EmptyDict
        /\ "spokesperson" \in arg.keys =>
              LET spokesperson == arg.spokesperson
              IN Outcome.value =
                    IF spokesperson.type = "dict" THEN spokesperson
                    ELSE IF spokesperson.type = "list"
                            /\ spokesperson.items # <<>>
                    THEN spokesperson.items[1]
                    ELSE EmptyDict

\* C21: normalizing the document that holds the first result gives that
\* result again, and a document whose spokesperson is a dict comes back
\* as it is.
C21_NormalizeIdempotent ==
    (fn = "normalize_spokesperson" /\ fpc = "again") =>
        /\ ret[2].raised = None
        /\ ret[2].value = ret[1].value
        /\ ("spokesperson" \in arg.keys /\ arg.spokesperson.type = "dict") =>
              ret[1].value = arg.spokesperson

C23_SingleSceneConciseHook ==
    (/\ FnDone("build_all_scene_prompts")
     /\ Len(arg.variant.modified_scenes) = 1) =>
        /\ Outcome.raised = None
        /\ Outcome.value[1].script_segment \in
              {Flatten(Slice(Sentences(arg.full_script), 0, 1)),
               Flatten(Slice(Sentences(arg.full_script), 0, 2))}

\* C23 as the code has it: with exactly one scene, the script segment of
\* that scene is the whole script, however many sentences it has.
C23_SingleSceneWholeScript ==
    (/\ FnDone("build_all_scene_prompts")
     /\ Len(arg.variant.modified_scenes) = 1) =>
        /\ Outcome.raised = None
        /\ Len(Outcome.value) = 1
        /\ Outcome.value[1].script_segment = arg.full_script

\* reached: one scene and a script of three sentences
C23_Witness ==
    /\ FnDone("build_all_scene_prompts")
    /\ Len(arg.variant.modified_scenes) = 1
    /\ Len(Sentences(arg.full_script)) = 3
    /\ Outcome.value[1].script_segment = <<"Stop.", "Stop.", "now!">>

\* C29: for two or more scenes and a script with at least as many
\* sentences as scenes, every scene has a script segment that is not empty.
C29_NoEmptySegment ==
    (/\ FnDone("_split_script_intelligently")
     /\ Len(arg.scenes) >= 2
     /\ Len(Sentences(arg.script)) >= Len(arg.scenes)) =>
        /\ Outcome.raised = None
        /\ \A i \in 1..Len(Outcome.value) : Outcome.value[i] # <<>>

\* the base words contained in the lower-cased original emotion
BasesIn(original_emotion) ==
    {i \in 1..Len(BaseOrder) :
        \E k \in 1..Len(original_emotion) :
            <<BaseOrder[i], Lower(original_emotion[k])>> \in Within}

\* C24: _adjust_emotion returns the level's table phrase of the first base
\* word (frustrated, excited, urgent, confident, worried, determined) that
\* the lower-cased original contains, else the first emotion keyword, else
\* 'confident'; the result holds nothing of the original text and is no
\* phrase of another level's table.
C24_CoherentEmotion ==
    FnDone("_adjust_emotion") =>
        LET level == arg.aggression_level
            bases == BasesIn(arg.original_emotion)
        IN /\ Outcome.raised = None
           /\ \A i \in bases :
                 (\A j \in bases : i <= j) =>
                     Outcome.value = EmotionMap[level][BaseOrder[i]]
           /\ (bases = {} /\ arg.emotion_keywords # <<>>) =>
                 Outcome.value = arg.emotion_keywords[1]
           /\ (bases = {} /\ arg.emotion_keywords = <<>>) =>
                 Outcome.value = <<"confident">>
           /\ \/ \E b \in DOMAIN EmotionMap[level] :
                     Outcome.value = EmotionMap[level][b]
              \/ /\ arg.emotion_keywords # <<>>
                 /\ Outcome.value = arg.emotion_keywords[1]
              \/ Outcome.value = <<"confident">>
           /\ bases # {} =>
                 \A l \in LevelSet \ {level} :
                     \A b \in DOMAIN EmotionMap[l] :
                         Outcome.value # EmotionMap[l][b]

\* reached: the original names 'determined' before 'excited'; the result
\* is the ultra phrase of 'excited', the earlier word of the table
C24_Witness ==
    /\ FnDone("_adjust_emotion")
    /\ arg.original_emotion = <<"determined", "excited">>
    /\ arg.aggression_level = "ultra"
    /\ Outcome.value = <<"wildly", "enthusiastic">>

\* the forbidden terms an input of _build_broll_prompt holds
ForbiddenIn(input) == TermsOf(<<input>>) \cap BROLL_FORBIDDEN

\* C26: a B-roll prompt built from a visual description, B-roll type, mood
\* and script that hold no forbidden person-referencing term is valid under
\* validate_prompt with has_character false: no people-references error
\* and no other error.
C26_BrollPromptValid ==
    (/\ fn = "_build_broll_prompt"
     /\ fpc = "validated"
     /\ ForbiddenIn(Get(arg.scene, "visual_description",
                        "cinematic footage")) = {}
     /\ ForbiddenIn(Get(arg.scene, "broll_type", "generic")) = {}
     /\ ForbiddenIn(Get(arg.scene, "mood", "professional")) = {}
     /\ ForbiddenIn(arg.script) = {}) =>
        /\ ~ret[2].value.people_references
        /\ ret[2].value.errors = 0
        /\ ret[2].value.is_valid

(***************************************************************************)
(* Claims on PipelineIntegrator, checked under IntSpec.                    *)
(***************************************************************************)
AllStored(variant_id) ==
    /\ ScenesOf(db_scenes, variant_id) # {}
    /\ \A i \in ScenesOf(db_scenes, variant_id) :
          db_scenes[i].status = "completed"

\* C30: once every scene record created for a variant is stored as
\* completed the variant's record is 'completed', and once every variant
\* is completed the generation record is 'completed', however many scene
\* records were created for the variant.
C30_VariantAndGenerationCompleted ==
    ipc = "run" =>
        /\ \A v \in 1..Len(db_variants) :
              AllStored(v) => db_variants[v].status = "completed"
        /\ (\A v \in 1..Len(db_variants) : AllStored(v)) =>
              db_generation[1].status = "completed"
        /\ (\A v \in 1..Len(db_variants) :
                db_variants[v].status = "completed") =>
              db_generation[1].status = "completed"

=============================================================================
